---- MODULE Spec2Model ----
(***************************************************************************)
(* Model of chunk_processor_multithread_interruptible::apply in            *)
(* src/src/gdalcubes.cpp.                                                  *)
(*                                                                         *)
(* One run of apply() is modelled: the calling (main) thread spawns        *)
(* nthreads worker threads, polls their completion flags, checks the host  *)
(* interrupt signal every interrupt_every ticks, joins the workers and     *)
(* returns or throws.  Worker threads and the main thread interleave       *)
(* freely; the host user may raise the interrupt signal at any moment.     *)
(*                                                                         *)
(* Memory model.  `interrupted` is a plain bool written once by the main   *)
(* thread and only read by workers; it is modelled as one shared cell.     *)
(* `finished` and `interrupted_bythread` are std::vector<bool>: the bits   *)
(* of all workers share a machine word and operator= is a plain            *)
(* read-modify-write of that word, so a worker's write is a load of the    *)
(* word followed by a store of the word with its own bit set.              *)
(*                                                                         *)
(* Diagnostics.  GCBS_ERROR hands a message to the configured error        *)
(* handler (error_handling_r::standard after gc_init), which writes one    *)
(* tagged line per message.  In Spec `recorded` is the bag of the lines    *)
(* written.  The buffers the lines travel through on their way to the      *)
(* console (_err_stream, r_stderr_buf::_s), the mutexes guarding them and   *)
(* the progress reporter are the subject of SpecChan, in which the main    *)
(* thread and other threads call into the channel in every interleaving.   *)
(* SpecChan covers the handlers that write to the console (standard and    *)
(* debug); the handlers that append to a log file are those of SpecFile.   *)
(*                                                                         *)
(* Further specifications: SpecProg (the calls the program makes on one    *)
(* progress reporter), SpecRun (apply() together with the buffers),        *)
(* SpecCfg (the thread count gc_set_threads configures), SpecSink (the     *)
(* mutex passed to the callbacks), SpecPart (the partition as a function),  *)
(* SpecProc (the distributed executor, taken from its specification),       *)
(* SpecTwo (two progress reporters), SpecFile (the file handlers) and       *)
(* SpecAgain (a second call of apply()).                                    *)
(***************************************************************************)
EXTENDS Integers, Sequences, FiniteSets, Bags, TLC

\* ------------------------------------------------------------- bounds
MaxThreads == 2
MaxChunks == 3
MaxFail == 1
PartMaxThreads == 5
PartMaxChunks == 12

\* -------------------------------------------------- program constants
\* uint32_t sleep_ms, interrupt_ms, interrupt_every
sleep_ms == 100
interrupt_ms == 2000
interrupt_every == interrupt_ms \div sleep_ms

\* the texts of the std::string values read_chunk and the callback may throw;
\* a message is its text and the set of chunk ids the text names
Msgs == {"read error"}

VARIABLES
  nthreads,              \* _nthreads
  nchunks,               \* c->count_chunks()
  signal,                \* host interrupt: "none", "pending" or "seen"
  interrupted,           \* bool interrupted
  interrupted_bythread,  \* std::vector<bool>, one word
  finished,              \* std::vector<bool>, one word
  spc,                   \* main thread: position in apply()
  sit,                   \* main thread: loop variable `it` of spawn / join loops
  tick,                  \* main thread: int i of the polling loop
  wpc,                   \* worker: position in the thread body
  wi,                    \* worker: loop variable i
  wreg,                  \* worker: the word loaded for a vector<bool> write
  outcome,               \* per chunk: what last happened to it
  reads,                 \* per chunk: number of read_chunk invocations
  calls,                 \* per chunk: number of callback invocations
  visitors,              \* per chunk: workers that entered the loop body for it
  callers,               \* per chunk: workers that invoked the callback on it
  fails,                 \* per chunk: number of exceptions caught for it
  sigEarly,              \* the signal was raised while some chunk had not started
  unstartedAtFlag,       \* the chunks no worker had reached when interrupted was set
  recorded,              \* bag of the lines the error handler has written
  pN, pC, pdone, ppart,  \* partition computation: inputs, applied?, result
  handler,               \* the error handler set: "standard" or "debug"
  err_stream,            \* error_handling_r::_err_stream
  defer,                 \* error_handling_r::_defer
  stderr_s,              \* r_stderr_buf::_s
  console,               \* what REprintf has written, in order
  warnings,              \* r_warn_buf::_warnings
  warned,                \* what Rcpp::warning has been called with, in order
  m_errhandl,            \* error_handling_r::_m_errhandl: the threads holding it
  m_progress,            \* progress_simple_R::_m: the threads holding it
  p_val,                 \* progress_simple_R::_p, in hundredths
  cpc,                   \* per thread: position in its call into the channel
  cop,                   \* per thread: the locals of that call
  arrival,               \* the ids of the lines written, in the order of locking
  nops,                  \* number of calls made
  last,                  \* the call that returned last: thread, operation and
                         \* the number of insertions it passed on from _err_stream
  req,                   \* n[0] of the gc_set_threads call that made the executor
  mholder,               \* the callbacks that hold a mutex passed to them
  dN,                    \* chunk_processor_multiprocess: the worker count set
  dproc,                 \* per worker process: not spawned, running, exit status
  dspawns,               \* per worker process: the number of times it was spawned
  dres,                  \* the distributed run: idle, running, returned or failed
  m_progress2,           \* _m of a second progress_simple_R object
  p_val2,                \* _p of that object, in hundredths
  logfile,               \* the lines appended to the file _logfile, in order
  prev                   \* how the previous call of apply() ended; "none": no such call

execVars == <<nthreads, nchunks, signal, interrupted, interrupted_bythread,
              finished, spc, sit, tick, wpc, wi, wreg, outcome, reads, calls,
              visitors, callers, fails, sigEarly, unstartedAtFlag>>
chanVars == <<recorded>>
partVars == <<pN, pC, pdone, ppart>>
bufVars == <<handler, err_stream, defer, stderr_s, console, warnings, warned,
             m_errhandl, m_progress, p_val, cpc, cop, arrival, nops, last>>
auxVars == <<req, mholder, dN, dproc, dspawns, dres, prev>>
repVars == <<m_progress2, p_val2>>
sideVars == <<partVars, auxVars, repVars, logfile>>
vars == <<execVars, chanVars, sideVars, bufVars>>

Workers == 0 .. (nthreads - 1)
Chunks == 0 .. (nchunks - 1)

\* ------------------------------------------------ worker loop arithmetic

\* every worker starting at chunk 0
FirstChunk_zero(it) == 0

\* for (uint32_t i = it; ...
FirstChunk(it) == it

\* a stride of one chunk instead of one round of workers
NextChunk_stride1(i, n) == i + 1

\* ...; i += _nthreads).  i is a uint32_t and wraps at 2^32, which lies beyond
\* the integers TLC computes with; every chunk count of the model is far below it.
NextChunk(i, n) == i + n

\* a loop test that stops one chunk early
InLoop_offByOne(i, cnt) == i + 1 < cnt

\* ...; i < c->count_chunks(); ...
InLoop(i, cnt) == i < cnt

\* The chunk ids the loop of worker `it` iterates over, computed as the loop does.
RECURSIVE LoopFrom(_, _, _)
LoopFrom(i, n, cnt) ==
  IF InLoop(i, cnt) THEN {i} \cup LoopFrom(NextChunk(i, n), n, cnt) ELSE {}

Partition(it, n, cnt) == LoopFrom(FirstChunk(it), n, cnt)

\* a pre-chunk check that ignores the flag
Proceeds_always(intr) == TRUE

\* a pre-chunk check with the branches exchanged
Proceeds_inverted(intr) == intr

\* if (!interrupted) {...} else {...}
Proceeds(intr) == ~intr

\* ------------------------------------------------------ diagnostic path

\* GCBS_ERROR("unexpected exception while processing chunk " + std::to_string(i))
UnexpectedMsg(i) ==
  [text |-> "unexpected exception while processing chunk ", chunks |-> {i}]

\* GCBS_ERROR(s): the text of the thrown string, with no chunk id added to it
StringMsg(s) == [text |-> s, chunks |-> {}]

RECURSIVE SeqToBag(_)
SeqToBag(s) ==
  IF s = <<>> THEN EmptyBag ELSE SetToBag({Head(s)}) (+) SeqToBag(Tail(s))

\* The line error_handling_r::standard writes for a message of the given level.
StandardLines(type, msg) ==
  IF type \in {"ERROR", "FATAL"} THEN <<[tag |-> "[ERROR] ", msg |-> msg]>>
  ELSE IF type = "WARNING" THEN <<[tag |-> "[WARNING] ", msg |-> msg]>>
  ELSE IF type = "INFO" THEN <<[tag |-> "## ", msg |-> msg]>>
  ELSE <<>>

\* error_handling_r::standard(type, msg, where, error_code): its line is written
standard(type, msg) ==
  recorded' = recorded (+) SeqToBag(StandardLines(type, msg))

\* GCBS_ERROR(msg)
GCBS_ERROR(msg) == standard("ERROR", msg)

\* ------------------------------------------- the diagnostic channel
\* error_handling_r, r_stderr_buf, r_warn_buf and progress_simple_R, called
\* from the main thread of R and from other threads.  A call that holds a mutex
\* over several statements takes several steps; the body of
\* r_stderr_buf::print and of r_warn_buf::warning runs under the struct's own
\* mutex from its first statement to its last and is one step.

\* bounds of the channel specification
ChanThreads == 2
MaxOps == 3

\* the thread that loaded the library: static r_main_thread_id
r_main_thread_id == 0
ChanThreadIds == 0 .. (ChanThreads - 1)

\* the error levels of the messages: one that both handlers write and one
\* that only the debug handler writes
Levels == {"ERROR", "DEBUG"}

\* the values passed to set() and increment(), in hundredths
SetValues == {50}
IncValues == {50}

\* the message and the source label of the calls
MsgText == "m"
WhereText == "w"

\* The line error_handling_r::debug writes for a message of the given level.
DebugLines(type, msg, where) ==
  LET where_str == IF where = "" THEN "" ELSE " [in " \o where \o "]" IN
  IF type \in {"ERROR", "FATAL"}
    THEN <<[tag |-> "[ERROR] ", msg |-> msg, where_str |-> where_str]>>
  ELSE IF type = "WARNING"
    THEN <<[tag |-> "[WARNING]  ", msg |-> msg, where_str |-> where_str]>>
  ELSE IF type = "INFO"
    THEN <<[tag |-> "[INFO] ", msg |-> msg, where_str |-> where_str]>>
  ELSE IF type = "DEBUG"
    THEN <<[tag |-> "[DEBUG] ", msg |-> msg, where_str |-> where_str]>>
  ELSE <<>>

\* one piece of text of line `id`, inserted by thread t
Piece(t, id, text) ==
  [kind |-> "line", thr |-> t, id |-> id, text |-> text, eq |-> 0, sp |-> 0, pct |-> 0]

\* The insertions into _err_stream the handler h makes for one message, in
\* order: _err_stream << tag << msg [<< where_str] << std::endl.
Insertions(h, t, id, type) ==
  IF h = "debug"
    THEN LET ls == DebugLines(type, MsgText, WhereText) IN
         IF ls = <<>> THEN <<>>
         ELSE <<Piece(t, id, ls[1].tag), Piece(t, id, ls[1].msg),
                Piece(t, id, ls[1].where_str), Piece(t, id, "\n")>>
    ELSE LET ls == StandardLines(type, MsgText) IN
         IF ls = <<>> THEN <<>>
         ELSE <<Piece(t, id, ls[1].tag), Piece(t, id, ls[1].msg), Piece(t, id, "\n")>>

\* int(x) of a double x = a / b, b > 0: truncation towards zero
Trunc(a, b) == IF a >= 0 THEN a \div b ELSE -((-a) \div b)

\* while (i < pp) { s << "="; ++i; }: the number of "=" written from i = 0
EqCount(pp) == IF pp > 0 THEN pp ELSE 0

\* s << ">"; ++i; while (i < 50) { s << " "; ++i; }: the number of " " written
SpCount(pp) == IF EqCount(pp) + 1 < 50 THEN 50 - (EqCount(pp) + 1) ELSE 0

\* The frame _set(p) renders, p in hundredths:
\* "[" "="... ">" " "... "] " int(p * 100.0) " %\r"
Frame(t, p) ==
  LET pp == Trunc(50 * p, 100) IN
  [kind |-> "frame", thr |-> t, id |-> 0, text |-> "",
   eq |-> EqCount(pp), sp |-> SpCount(pp), pct |-> p]

\* ss << std::endl in finalize()
LineBreak(t) ==
  [kind |-> "nl", thr |-> t, id |-> 0, text |-> "\n", eq |-> 0, sp |-> 0, pct |-> 0]

\* a lock that is never waited for
CanLock_always(m) == TRUE

\* m.lock() returns when no thread holds m
CanLock(m) == m = {}

\* every thread taken for the main thread
IsMain_any(t) == TRUE

\* r_main_thread_id == std::this_thread::get_id()
IsMain(t) == t = r_main_thread_id

\* a print that also writes out what _err_stream holds
stderr_print_all(t, str) ==
  LET buf == stderr_s \o str IN
  IF IsMain(t)
    THEN console' = console \o buf \o err_stream /\ stderr_s' = <<>>
    ELSE console' = console /\ stderr_s' = buf

\* a print that does not clear the buffer it has written out
stderr_print_keep(t, str) ==
  LET buf == stderr_s \o str IN
  IF buf # <<>> /\ IsMain(t)
    THEN console' = console \o buf /\ stderr_s' = buf
    ELSE console' = console /\ stderr_s' = buf

\* a print that puts the new text before the buffered text
stderr_print_prepend(t, str) ==
  LET buf == str \o stderr_s IN
  IF buf # <<>> /\ t = r_main_thread_id
    THEN console' = console \o buf /\ stderr_s' = <<>>
    ELSE console' = console /\ stderr_s' = buf

\* r_stderr_buf::print(s): _s << s; if (!_s.str().empty() && main) { REprintf; _s.str(""); }
stderr_print(t, str) ==
  LET buf == stderr_s \o str IN
  IF buf # <<>> /\ IsMain(t)
    THEN console' = console \o buf /\ stderr_s' = <<>>
    ELSE console' = console /\ stderr_s' = buf

\* a stream that never reports text
InAvail_never(stream) == FALSE

\* _err_stream.rdbuf()->in_avail() > 0: text has been inserted since the last str("")
InAvail(stream) == stream # <<>>

\* the stream is cleared without being printed
PassOn_drop(t) == err_stream' = <<>> /\ UNCHANGED <<stderr_s, console>>

\* if (in_avail() > 0) { r_stderr_buf::print(_err_stream.str()); _err_stream.str(""); }
PassOn(t) ==
  IF InAvail(err_stream)
    THEN stderr_print(t, err_stream) /\ err_stream' = <<>>
    ELSE UNCHANGED <<err_stream, stderr_s, console>>

\* the locals of a thread that is in no call
NoCall == [op |-> "none", todo |-> <<>>, wrote |-> FALSE, p |-> 0]

\* no call into the channel has been made or is in progress
ChanIdle ==
  /\ err_stream = <<>>
  /\ defer = FALSE
  /\ stderr_s = <<>>
  /\ console = <<>>
  /\ warnings = <<>>
  /\ warned = <<>>
  /\ m_errhandl = {}
  /\ m_progress = {}
  /\ p_val = 0
  /\ cpc = [t \in ChanThreadIds |-> "idle"]
  /\ cop = [t \in ChanThreadIds |-> NoCall]
  /\ arrival = <<>>
  /\ nops = 0
  /\ last = [thr |-> r_main_thread_id, op |-> "none", n |-> 0]

\* gc_init(): the standard handler, no call made
ChanQuiet == handler = "standard" /\ ChanIdle

\* thread t is free to make a call
MayCall(t) == cpc[t] = "idle" /\ nops < MaxOps

\* thread t goes from position `from` to position `to`
Goes(t, from, to) == cpc[t] = from /\ cpc' = [cpc EXCEPT ![t] = to]

\* ---------------------------------------------------------------- Init

\* the distributed executor is not followed
DistIdle == dN = 0 /\ dproc = <<>> /\ dspawns = <<>> /\ dres = "idle"

\* the configuration call, the callbacks' mutex and the distributed executor
\* are not followed
AuxIdle ==
  /\ req = 0 /\ mholder = {} /\ DistIdle /\ prev = "none"
  /\ m_progress2 = {} /\ p_val2 = 0 /\ logfile = <<>>

\* the partition computation is not running
PartIdle == pN = 0 /\ pC = 0 /\ pdone = TRUE /\ ppart = <<>>

\* apply() is entered with nt threads configured and a cube of nc chunks
ApplyEntered(nt, nc) ==
  /\ nthreads = nt
  /\ nchunks = nc
  /\ signal = "none"
  /\ interrupted = FALSE
  /\ interrupted_bythread = [k \in Workers |-> FALSE]
  /\ finished = [k \in Workers |-> FALSE]
  /\ spc = "spawn"
  /\ sit = 0
  /\ tick = 0
  /\ wpc = [k \in Workers |-> "unborn"]
  /\ wi = [k \in Workers |-> 0]
  /\ wreg = [k \in Workers |-> <<>>]
  /\ outcome = [c \in Chunks |-> "none"]
  /\ reads = [c \in Chunks |-> 0]
  /\ calls = [c \in Chunks |-> 0]
  /\ visitors = [c \in Chunks |-> {}]
  /\ callers = [c \in Chunks |-> {}]
  /\ fails = [c \in Chunks |-> 0]
  /\ sigEarly = FALSE
  /\ unstartedAtFlag = {}
  /\ recorded = EmptyBag

Init ==
  /\ \E nt \in 0 .. MaxThreads, nc \in 0 .. MaxChunks : ApplyEntered(nt, nc)
  /\ PartIdle
  /\ AuxIdle
  /\ ChanQuiet

\* ------------------------------------------------------- worker thread

\* what read_chunk or the callback may throw
Exceptions ==
  {[kind |-> "string", s |-> m] : m \in Msgs} \cup {[kind |-> "other", s |-> ""]}

RECURSIVE SumTo(_, _)
SumTo(f, n) == IF n = 0 THEN 0 ELSE f[n - 1] + SumTo(f, n - 1)

TotalFails == SumTo(fails, nchunks)

\* a catch block that leaves the loop
Continue_break(i, n) == nchunks

\* a catch block that starts the same chunk again
Continue_retry(i, n) == i

\* `continue` in a catch block: on to the loop's increment
Continue(i, n) == NextChunk(i, n)

\* the message a catch block hands to GCBS_ERROR
CaughtMsg(exc, i) ==
  IF exc.kind = "string" THEN StringMsg(exc.s) ELSE UnexpectedMsg(i)

\* catch (std::string s) {...} catch (...) {...}
Catch(k, exc, what) ==
  /\ GCBS_ERROR(CaughtMsg(exc, wi[k]))
  /\ fails' = [fails EXCEPT ![wi[k]] = @ + 1]
  /\ outcome' = [outcome EXCEPT ![wi[k]] = what]
  /\ wi' = [wi EXCEPT ![k] = Continue(wi[k], nthreads)]
  /\ wpc' = [wpc EXCEPT ![k] = "top"]

\* Top of the loop body: the loop test and the pre-chunk check of `interrupted`.
\* Leaving the loop, the thread goes on to finished[it] = true and loads the word
\* of `finished`; on the else branch it goes on to interrupted_bythread[it] = true
\* and loads the word of `interrupted_bythread`.
WTop(k) ==
  /\ wpc[k] = "top"
  /\ IF ~InLoop(wi[k], nchunks)
       THEN /\ wreg' = [wreg EXCEPT ![k] = finished]
            /\ wpc' = [wpc EXCEPT ![k] = "fin_store"]
            /\ UNCHANGED <<outcome, reads, visitors>>
       ELSE /\ visitors' = [visitors EXCEPT ![wi[k]] = @ \cup {k}]
            /\ IF Proceeds(interrupted)
                 THEN /\ wpc' = [wpc EXCEPT ![k] = "read"]
                      /\ reads' = [reads EXCEPT ![wi[k]] = @ + 1]
                      /\ outcome' = [outcome EXCEPT ![wi[k]] = "reading"]
                      /\ UNCHANGED wreg
                 ELSE /\ wreg' = [wreg EXCEPT ![k] = interrupted_bythread]
                      /\ wpc' = [wpc EXCEPT ![k] = "skip_store"]
                      /\ outcome' = [outcome EXCEPT ![wi[k]] = "skipped"]
                      /\ UNCHANGED reads
  /\ UNCHANGED <<nthreads, nchunks, signal, interrupted, interrupted_bythread,
                 finished, spc, sit, tick, wi, calls, callers, fails,
                 sigEarly, unstartedAtFlag, chanVars, sideVars, bufVars>>

\* c->read_chunk(i) returns and f(i, dat, mutex) is entered, or read_chunk throws
WRead(k) ==
  /\ wpc[k] = "read"
  /\ \/ /\ wpc' = [wpc EXCEPT ![k] = "call"]
        /\ calls' = [calls EXCEPT ![wi[k]] = @ + 1]
        /\ callers' = [callers EXCEPT ![wi[k]] = @ \cup {k}]
        /\ outcome' = [outcome EXCEPT ![wi[k]] = "calling"]
        /\ UNCHANGED <<wi, fails, chanVars>>
     \/ /\ TotalFails < MaxFail
        /\ \E exc \in Exceptions : Catch(k, exc, "read_failed")
        /\ UNCHANGED <<calls, callers>>
  /\ UNCHANGED <<nthreads, nchunks, signal, interrupted, interrupted_bythread,
                 finished, spc, sit, tick, wreg, reads, visitors,
                 sigEarly, unstartedAtFlag, sideVars, bufVars>>

\* f(i, dat, mutex) returns or throws
WCall(k) ==
  /\ wpc[k] = "call"
  /\ \/ /\ outcome' = [outcome EXCEPT ![wi[k]] = "ok"]
        /\ wi' = [wi EXCEPT ![k] = NextChunk(wi[k], nthreads)]
        /\ wpc' = [wpc EXCEPT ![k] = "top"]
        /\ UNCHANGED <<fails, chanVars>>
     \/ /\ TotalFails < MaxFail
        /\ \E exc \in Exceptions : Catch(k, exc, "call_failed")
  /\ UNCHANGED <<nthreads, nchunks, signal, interrupted, interrupted_bythread,
                 finished, spc, sit, tick, wreg, reads, calls, visitors, callers,
                 sigEarly, unstartedAtFlag, sideVars, bufVars>>

\* a store that leaves the bit as it was
SetBit_none(word, it) == word

\* the word with bit `it` set
SetBit(word, it) == [word EXCEPT ![it] = TRUE]

\* interrupted_bythread[it] = true: store of the word, then the loop's increment
WSkipStore(k) ==
  /\ wpc[k] = "skip_store"
  /\ interrupted_bythread' = SetBit(wreg[k], k)
  /\ wreg' = [wreg EXCEPT ![k] = <<>>]
  /\ wi' = [wi EXCEPT ![k] = NextChunk(wi[k], nthreads)]
  /\ wpc' = [wpc EXCEPT ![k] = "top"]
  /\ UNCHANGED <<nthreads, nchunks, signal, interrupted, finished, spc, sit,
                 tick, outcome, reads, calls, visitors, callers, fails,
                 sigEarly, unstartedAtFlag, chanVars, sideVars, bufVars>>

\* finished[it] = true: store of the word; the thread body ends
WFinStore(k) ==
  /\ wpc[k] = "fin_store"
  /\ finished' = SetBit(wreg[k], k)
  /\ wreg' = [wreg EXCEPT ![k] = <<>>]
  /\ wpc' = [wpc EXCEPT ![k] = "ended"]
  /\ UNCHANGED <<nthreads, nchunks, signal, interrupted, interrupted_bythread,
                 spc, sit, tick, wi, outcome, reads, calls, visitors, callers,
                 fails, sigEarly, unstartedAtFlag, chanVars, sideVars, bufVars>>

\* ---------------------------------------------------------- main thread

\* workers.push_back(std::thread(...)), one per iteration
Spawn ==
  /\ spc = "spawn"
  /\ sit < nthreads
  /\ wpc' = [wpc EXCEPT ![sit] = "top"]
  /\ wi' = [wi EXCEPT ![sit] = FirstChunk(sit)]
  /\ sit' = sit + 1
  /\ UNCHANGED <<nthreads, nchunks, signal, interrupted, interrupted_bythread,
                 finished, spc, tick, wreg, outcome, reads, calls, visitors,
                 callers, fails, sigEarly, unstartedAtFlag, chanVars, sideVars, bufVars>>

\* a loop that is done when some worker has finished
AllFinished_some == \E k \in Workers : finished[k]

\* done = done && finished[it], over all it
AllFinished == \A k \in Workers : finished[k]

\* a check of the host signal on every tick
CheckTick_always(i) == TRUE

\* if (i >= interrupt_every && i % interrupt_every == 0)
CheckTick(i) == i >= interrupt_every /\ i % interrupt_every = 0

\* ++i.  Only CheckTick reads i, so beyond interrupt_every the counter is kept
\* modulo interrupt_every, in 1 .. interrupt_every: CheckTick of the kept value
\* equals CheckTick of i.
NextTick(i) ==
  IF i + 1 > interrupt_every THEN 1 ELSE i + 1

\* a handler that sets the flag and goes on polling
Break_keepPolling == "sleep"

\* break: out of the polling loop, on to the joins
Break == "join"

\* One pass of while (!done) with the counter at i, from the loop test to the
\* sleep: all workers are finished (print, ++i, leave the loop), or the host
\* interrupt is seen (set the flag, break), or the thread goes to sleep.
LoopPass(i) ==
  IF AllFinished
    THEN /\ tick' = NextTick(i)
         /\ spc' = "join"
         /\ sit' = 0
         /\ UNCHANGED <<signal, interrupted, unstartedAtFlag>>
    ELSE IF CheckTick(i) /\ signal = "pending"
      THEN /\ interrupted' = TRUE
           /\ signal' = "seen"
           /\ unstartedAtFlag' = {c \in Chunks : outcome[c] = "none"}
           /\ tick' = i
           /\ spc' = Break
           /\ sit' = 0
      ELSE /\ tick' = i
           /\ spc' = "sleep"
           /\ UNCHANGED <<signal, interrupted, unstartedAtFlag, sit>>

\* r_stderr_buf::print(); bool done = false; int i = 0; first pass of the loop
StartLoop ==
  /\ spc = "spawn"
  /\ sit = nthreads
  /\ LoopPass(0)
  /\ UNCHANGED <<nthreads, nchunks, interrupted_bythread, finished, wpc, wi,
                 wreg, outcome, reads, calls, visitors, callers, fails,
                 sigEarly, chanVars, sideVars, bufVars>>

\* sleep_for returns; r_stderr_buf::print(); ++i; next pass of the loop
Wake ==
  /\ spc = "sleep"
  /\ LoopPass(NextTick(tick))
  /\ UNCHANGED <<nthreads, nchunks, interrupted_bythread, finished, wpc, wi,
                 wreg, outcome, reads, calls, visitors, callers, fails,
                 sigEarly, chanVars, sideVars, bufVars>>

\* a join that does not wait
Joinable_nowait(it) == TRUE

\* workers[it].join() returns once thread `it` has ended
Joinable(it) == wpc[it] = "ended"

Join ==
  /\ spc = "join"
  /\ sit < nthreads
  /\ Joinable(sit)
  /\ sit' = sit + 1
  /\ UNCHANGED <<nthreads, nchunks, signal, interrupted, interrupted_bythread,
                 finished, spc, tick, wpc, wi, wreg, outcome, reads, calls,
                 visitors, callers, fails, sigEarly, unstartedAtFlag, chanVars, sideVars, bufVars>>

\* an inspection that looks at the first worker only
AnyIncomplete_first == 0 \in Workers /\ interrupted_bythread[0]

\* the loop over interrupted_bythread
AnyIncomplete == \E k \in Workers : interrupted_bythread[k]

\* a throw on the flag alone
Throws_flagOnly(intr, any_incomplete) == intr

\* if (interrupted && any_incomplete) throw ...
Throws(intr, any_incomplete) == intr /\ any_incomplete

\* after the joins: r_stderr_buf::print(), the inspection, throw or return
Finish ==
  /\ spc = "join"
  /\ sit = nthreads
  /\ spc' = IF Throws(interrupted, AnyIncomplete) THEN "failed" ELSE "returned"
  /\ UNCHANGED <<nthreads, nchunks, signal, interrupted, interrupted_bythread,
                 finished, sit, tick, wpc, wi, wreg, outcome, reads, calls,
                 visitors, callers, fails, sigEarly, unstartedAtFlag, chanVars,
                 sideVars, bufVars>>

\* ------------------------------------------------------------ the host

Ended == spc \in {"returned", "failed"}

\* the user interrupts R while apply() runs
RaiseSignal ==
  /\ signal = "none"
  /\ spc \in {"spawn", "sleep", "join"}
  /\ signal' = "pending"
  /\ sigEarly' = \E c \in Chunks : reads[c] = 0
  /\ UNCHANGED <<nthreads, nchunks, interrupted, interrupted_bythread, finished,
                 spc, sit, tick, wpc, wi, wreg, outcome, reads, calls, visitors,
                 callers, fails, unstartedAtFlag, chanVars, sideVars, bufVars>>

Worker(k) ==
  \/ WTop(k)
  \/ WRead(k)
  \/ WCall(k)
  \/ WSkipStore(k)
  \/ WFinStore(k)

Next ==
  \/ Spawn
  \/ StartLoop
  \/ Wake
  \/ Join
  \/ Finish
  \/ RaiseSignal
  \/ \E k \in Workers : Worker(k)

Spec == Init /\ [][Next]_vars

\* The steps of the thread that called apply().
MainStep == Spawn \/ StartLoop \/ Wake \/ Join \/ Finish

\* Scheduling: the operating system keeps running every thread that can take a
\* step (sleep_for returns, join returns once the thread has ended), and
\* read_chunk and the callback return or throw.  The host user is free never to
\* interrupt: RaiseSignal is under no fairness.
Fairness ==
  /\ WF_vars(MainStep)
  /\ \A k \in 0 .. (MaxThreads - 1) : WF_vars(k \in Workers /\ Worker(k))

SpecFair == Spec /\ Fairness

\* ------------------------------------------- the partition as a function

\* The chunk ids of every worker for pN workers and pC chunks.
PartInit ==
  /\ pN \in 1 .. PartMaxThreads
  /\ pC \in 0 .. PartMaxChunks
  /\ pdone = FALSE
  /\ ppart = <<>>
  /\ AuxIdle
  /\ ApplyEntered(0, 0)
  /\ ChanQuiet

PartApply ==
  /\ ~pdone
  /\ ppart' = [k \in 0 .. (pN - 1) |-> Partition(k, pN, pC)]
  /\ pdone' = TRUE
  /\ UNCHANGED <<pN, pC, execVars, chanVars, bufVars, auxVars, repVars, logfile>>

PartNext == PartApply

SpecPart == PartInit /\ [][PartNext]_vars

\* ------------------------------------ calls into the diagnostic channel

\* a defer_output that leaves the flag as it was
defer_output_noop == CanLock(m_errhandl) /\ UNCHANGED defer

\* error_handling_r::defer_output(): lock, _defer = true, unlock
defer_output == CanLock(m_errhandl) /\ defer' = TRUE

\* a do_output that leaves the deferred mode on
do_output_keep(t) == CanLock(m_errhandl) /\ PassOn(t) /\ UNCHANGED defer

\* error_handling_r::do_output(): lock, pass the stream on, _defer = false, unlock
do_output(t) == CanLock(m_errhandl) /\ PassOn(t) /\ defer' = FALSE

\* the number of insertions a call passes on from _err_stream
PassedOn == IF InAvail(err_stream) THEN Len(err_stream) ELSE 0

\* the call `op` of thread t returns, having passed on n insertions
Done(t, op, n) == last' = [thr |-> t, op |-> op, n |-> n]

\* thread t returns from the call it is in
Returns(t, n) ==
  /\ cpc' = [cpc EXCEPT ![t] = "idle"]
  /\ cop' = [cop EXCEPT ![t] = NoCall]
  /\ Done(t, cop[t].op, n)

\* The error handler is called with a message of level `type`:
\* _m_errhandl.lock(); the insertions to make are those of the handler set.
ErrCall(t, type) ==
  /\ MayCall(t)
  /\ CanLock(m_errhandl)
  /\ m_errhandl' = {t}
  /\ LET id == Len(arrival) + 1
         ins == Insertions(handler, t, id, type) IN
     /\ cop' = [cop EXCEPT ![t] = [op |-> "record", todo |-> ins,
                                   wrote |-> ins # <<>>, p |-> 0]]
     /\ arrival' = IF ins # <<>> THEN Append(arrival, id) ELSE arrival
     /\ cpc' = [cpc EXCEPT ![t] = IF ins # <<>> THEN "err_write" ELSE "err_flush"]
  /\ nops' = nops + 1
  /\ UNCHANGED <<handler, err_stream, defer, stderr_s, console, warnings, warned,
                 m_progress, p_val, last>>

\* one insertion: _err_stream << ...
ErrWrite(t) ==
  /\ cpc[t] = "err_write"
  /\ err_stream' = Append(err_stream, Head(cop[t].todo))
  /\ cop' = [cop EXCEPT ![t].todo = Tail(@)]
  /\ cpc' = [cpc EXCEPT ![t] = IF Tail(cop[t].todo) = <<>> THEN "err_flush"
                                                           ELSE "err_write"]
  /\ UNCHANGED <<handler, defer, stderr_s, console, warnings, warned, m_errhandl,
                 m_progress, p_val, arrival, nops, last>>

\* if (!_defer) { pass the stream on }; _m_errhandl.unlock()
ErrFlush(t) ==
  /\ cpc[t] = "err_flush"
  /\ IF ~defer THEN PassOn(t) ELSE UNCHANGED <<err_stream, stderr_s, console>>
  /\ m_errhandl' = {}
  /\ Returns(t, IF ~defer THEN PassedOn ELSE 0)
  /\ UNCHANGED <<handler, defer, warnings, warned, m_progress, p_val, arrival, nops>>

\* a call of error_handling_r::defer_output() on its own
CallDefer(t) ==
  /\ MayCall(t)
  /\ defer_output
  /\ Done(t, "defer_output", 0)
  /\ nops' = nops + 1
  /\ UNCHANGED <<handler, err_stream, stderr_s, console, warnings, warned,
                 m_errhandl, m_progress, p_val, cpc, cop, arrival>>

\* a call of error_handling_r::do_output() on its own
CallFlush(t) ==
  /\ MayCall(t)
  /\ do_output(t)
  /\ Done(t, "do_output", PassedOn)
  /\ nops' = nops + 1
  /\ UNCHANGED <<handler, warnings, warned, m_errhandl, m_progress, p_val, cpc,
                 cop, arrival>>

\* r_stderr_buf::print() in apply(), by the thread that called apply()
CallPrint(t) ==
  /\ MayCall(t)
  /\ IsMain(t)
  /\ stderr_print(t, <<>>)
  /\ Done(t, "print", 0)
  /\ nops' = nops + 1
  /\ UNCHANGED <<handler, err_stream, defer, warnings, warned, m_errhandl,
                 m_progress, p_val, cpc, cop, arrival>>

\* r_warn_buf::warning(s)
CallWarning(t) ==
  /\ MayCall(t)
  /\ LET w == Append(warnings, [thr |-> t, n |-> nops]) IN
     IF w # <<>> /\ IsMain(t)
       THEN warned' = warned \o w /\ warnings' = <<>>
       ELSE warned' = warned /\ warnings' = w
  /\ Done(t, "warning", 0)
  /\ nops' = nops + 1
  /\ UNCHANGED <<handler, err_stream, defer, stderr_s, console, m_errhandl,
                 m_progress, p_val, cpc, cop, arrival>>

\* set(p), increment(dp) or finalize() is entered: _m.lock(); p is the argument
\* _set will be called with
ProgressCall(t, op, p) ==
  /\ MayCall(t)
  /\ CanLock(m_progress)
  /\ m_progress' = {t}
  /\ cop' = [cop EXCEPT ![t] = [op |-> op, todo |-> <<>>, wrote |-> FALSE, p |-> p]]
  /\ cpc' = [cpc EXCEPT ![t] = "p_defer"]
  /\ nops' = nops + 1
  /\ UNCHANGED <<handler, err_stream, defer, stderr_s, console, warnings, warned,
                 m_errhandl, p_val, arrival, last>>

\* set(p): _set(p)
CallSet(t) == \E p \in SetValues : ProgressCall(t, "set", p)

\* increment(dp): _set(_p + dp)
CallIncrement(t) == \E dp \in IncValues : ProgressCall(t, "increment", p_val + dp)

\* a finalize that renders the stored value
FinalValue_stored == p_val

\* the argument of _set in finalize(): 1, in hundredths
FinalValue == 100

\* finalize(): _set(1)
CallFinalize(t) == ProgressCall(t, "finalize", FinalValue)

\* _set: error_handling_r::defer_output()
PDefer(t) ==
  /\ Goes(t, "p_defer", "p_render")
  /\ defer_output
  /\ UNCHANGED <<handler, err_stream, stderr_s, console, warnings, warned,
                 m_errhandl, m_progress, p_val, cop, arrival, nops, last>>

\* _set: _p = p; the frame is rendered and printed; set and increment unlock
PRender(t) ==
  /\ cpc[t] = "p_render"
  /\ p_val' = cop[t].p
  /\ stderr_print(t, <<Frame(t, cop[t].p)>>)
  /\ IF cop[t].op = "finalize"
       THEN cpc' = [cpc EXCEPT ![t] = "f_newline"] /\ UNCHANGED <<cop, m_progress, last>>
       ELSE Returns(t, 0) /\ m_progress' = {}
  /\ UNCHANGED <<handler, err_stream, defer, warnings, warned, m_errhandl,
                 arrival, nops>>

\* finalize: ss << std::endl; r_stderr_buf::print(ss.str())
FNewline(t) ==
  /\ Goes(t, "f_newline", "f_output")
  /\ stderr_print(t, <<LineBreak(t)>>)
  /\ UNCHANGED <<handler, err_stream, defer, warnings, warned, m_errhandl,
                 m_progress, p_val, cop, arrival, nops, last>>

\* finalize: error_handling_r::do_output(); _m.unlock()
FOutput(t) ==
  /\ cpc[t] = "f_output"
  /\ do_output(t)
  /\ m_progress' = {}
  /\ Returns(t, PassedOn)
  /\ UNCHANGED <<handler, warnings, warned, m_errhandl, p_val, arrival, nops>>

ChanThread(t) ==
  \/ \E type \in Levels : ErrCall(t, type)
  \/ ErrWrite(t)
  \/ ErrFlush(t)
  \/ CallDefer(t)
  \/ CallFlush(t)
  \/ CallPrint(t)
  \/ CallWarning(t)
  \/ CallSet(t)
  \/ CallIncrement(t)
  \/ CallFinalize(t)
  \/ PDefer(t)
  \/ PRender(t)
  \/ FNewline(t)
  \/ FOutput(t)

\* gc_init() or gc_set_err_handler(debug, "") has set the handler
ChanInit ==
  /\ handler \in {"standard", "debug"}
  /\ ChanIdle
  /\ ApplyEntered(0, 0)
  /\ PartIdle
  /\ AuxIdle

ChanNext ==
  \E t \in ChanThreadIds :
    ChanThread(t) /\ UNCHANGED <<execVars, chanVars, sideVars>>

SpecChan == ChanInit /\ [][ChanNext]_vars

\* a silent reporter that flushes the channel
progress_none_R_flush(t) == do_output(t)

\* progress_none_R: set, increment and finalize have empty bodies
progress_none_R(t) == UNCHANGED <<err_stream, defer, stderr_s, console>>

\* a call of set, increment or finalize of a progress_none_R object, the
\* reporter gc_set_progress(false) installs
CallNone(t) ==
  /\ MayCall(t)
  /\ progress_none_R(t)
  /\ \E op \in {"none_set", "none_increment", "none_finalize"} : Done(t, op, 0)
  /\ nops' = nops + 1
  /\ UNCHANGED <<handler, warnings, warned, m_errhandl, m_progress, p_val, cpc,
                 cop, arrival>>

\* ------------------------------------- the channel as the program calls it
\* defer_output() and do_output() are called by the progress reporter only
\* (_set and finalize), r_stderr_buf::print() by apply() and by the handlers,
\* and r_warn_buf::warning() by nothing.  In SpecProg the threads make the calls
\* the program makes on one progress reporter: handler calls, apply()'s print,
\* set, increment and finalize; and they call the silent reporter.
ProgThread(t) ==
  \/ \E type \in Levels : ErrCall(t, type)
  \/ ErrWrite(t)
  \/ ErrFlush(t)
  \/ CallPrint(t)
  \/ CallSet(t)
  \/ CallIncrement(t)
  \/ CallFinalize(t)
  \/ PDefer(t)
  \/ PRender(t)
  \/ FNewline(t)
  \/ FOutput(t)
  \/ CallNone(t)

ProgNext ==
  \E t \in ChanThreadIds :
    ProgThread(t) /\ UNCHANGED <<execVars, chanVars, sideVars>>

SpecProg == ChanInit /\ [][ProgNext]_vars

\* ------------------------------------------ apply() and the channel together
\* One run of apply() with the buffers its diagnostics travel through.  The
\* thread that calls apply() is the main thread of R; worker `it` is thread
\* it + 1 of the channel.  A worker calls the error handler from its catch
\* blocks, and the callback it runs may update the progress reporter.  The
\* line of a catch block is followed through the buffers; the bag `recorded`
\* of Spec is not kept.

\* bounds of SpecRun: the chunk count, and the number of calls the workers make
\* into the channel
RunMaxChunks == 2
RunMaxOps == 1

\* the channel's id of worker thread k
Tid(k) == k + 1

\* a polling loop that never prints
tick_print_skip(t) == UNCHANGED <<console, stderr_s>>

\* r_stderr_buf::print() before the polling loop and after each sleep
tick_print(t) == stderr_print(t, <<>>)

\* no print after the joins
final_print_skip(t) == UNCHANGED <<console, stderr_s>>

\* r_stderr_buf::print() after the joins
final_print(t) == stderr_print(t, <<>>)

\* what a print of the main thread leaves alone
PrintFrame ==
  UNCHANGED <<handler, err_stream, defer, warnings, warned, m_errhandl,
              m_progress, p_val, cpc, cop, arrival, nops, last>>

\* r_stderr_buf::print(); bool done = false; int i = 0; first pass of the loop
RunStartLoop ==
  /\ spc = "spawn"
  /\ sit = nthreads
  /\ tick_print(r_main_thread_id)
  /\ LoopPass(0)
  /\ PrintFrame
  /\ UNCHANGED <<nthreads, nchunks, interrupted_bythread, finished, wpc, wi,
                 wreg, outcome, reads, calls, visitors, callers, fails,
                 sigEarly, chanVars, sideVars>>

\* sleep_for returns; r_stderr_buf::print(); ++i; next pass of the loop
RunWake ==
  /\ spc = "sleep"
  /\ tick_print(r_main_thread_id)
  /\ LoopPass(NextTick(tick))
  /\ PrintFrame
  /\ UNCHANGED <<nthreads, nchunks, interrupted_bythread, finished, wpc, wi,
                 wreg, outcome, reads, calls, visitors, callers, fails,
                 sigEarly, chanVars, sideVars>>

\* after the joins: r_stderr_buf::print(), the inspection, throw or return
RunFinish ==
  /\ spc = "join"
  /\ sit = nthreads
  /\ final_print(r_main_thread_id)
  /\ spc' = IF Throws(interrupted, AnyIncomplete) THEN "failed" ELSE "returned"
  /\ PrintFrame
  /\ UNCHANGED <<nthreads, nchunks, signal, interrupted, interrupted_bythread,
                 finished, sit, tick, wpc, wi, wreg, outcome, reads, calls,
                 visitors, callers, fails, sigEarly, unstartedAtFlag, chanVars,
                 sideVars>>

\* c->read_chunk(i) returns and f(i, dat, mutex) is entered
RunRead(k) == WRead(k) /\ fails' = fails

\* f(i, dat, mutex) returns; the callback is in no call of the reporter
RunCall(k) == cpc[Tid(k)] = "idle" /\ WCall(k) /\ fails' = fails

\* read_chunk or the callback throws; the catch block calls GCBS_ERROR and the
\* handler locks _m_errhandl
RunThrow(k) ==
  /\ wpc[k] \in {"read", "call"}
  /\ TotalFails < MaxFail
  /\ nops < RunMaxOps
  /\ ErrCall(Tid(k), "ERROR")
  /\ fails' = [fails EXCEPT ![wi[k]] = @ + 1]
  /\ outcome' = [outcome EXCEPT ![wi[k]] =
                   IF wpc[k] = "read" THEN "read_failed" ELSE "call_failed"]
  /\ wpc' = [wpc EXCEPT ![k] = "catch"]
  /\ UNCHANGED <<nthreads, nchunks, signal, interrupted, interrupted_bythread,
                 finished, spc, sit, tick, wi, wreg, reads, calls, visitors,
                 callers, sigEarly, unstartedAtFlag, chanVars, sideVars>>

\* the handler inserts one piece of its line
RunHandler(k) ==
  /\ wpc[k] = "catch"
  /\ ErrWrite(Tid(k))
  /\ UNCHANGED <<execVars, chanVars, sideVars>>

\* the handler returns; `continue`
RunCaught(k) ==
  /\ wpc[k] = "catch"
  /\ ErrFlush(Tid(k))
  /\ wi' = [wi EXCEPT ![k] = Continue(wi[k], nthreads)]
  /\ wpc' = [wpc EXCEPT ![k] = "top"]
  /\ UNCHANGED <<nthreads, nchunks, signal, interrupted, interrupted_bythread,
                 finished, spc, sit, tick, wreg, outcome, reads, calls, visitors,
                 callers, fails, sigEarly, unstartedAtFlag, chanVars, sideVars>>

\* the callback calls increment() of the progress reporter, or goes on in the
\* call it is in
RunProgress(k) ==
  /\ wpc[k] = "call"
  /\ \/ nops < RunMaxOps /\ CallIncrement(Tid(k))
     \/ PDefer(Tid(k))
     \/ PRender(Tid(k))
  /\ UNCHANGED <<execVars, chanVars, sideVars>>

RunWorker(k) ==
  \/ WTop(k)
  \/ RunRead(k)
  \/ RunCall(k)
  \/ RunThrow(k)
  \/ RunHandler(k)
  \/ RunCaught(k)
  \/ RunProgress(k)
  \/ WSkipStore(k)
  \/ WFinStore(k)

\* the main thread has called set(p) and no other call has been made: the
\* channel is in deferred mode and the frame is on the console
BarShown(p) ==
  /\ err_stream = <<>>
  /\ defer = TRUE
  /\ stderr_s = <<>>
  /\ console = <<Frame(r_main_thread_id, p)>>
  /\ warnings = <<>>
  /\ warned = <<>>
  /\ m_errhandl = {}
  /\ m_progress = {}
  /\ p_val = p
  /\ cpc = [t \in ChanThreadIds |-> "idle"]
  /\ cop = [t \in ChanThreadIds |-> NoCall]
  /\ arrival = <<>>
  /\ nops = 0
  /\ last = [thr |-> r_main_thread_id, op |-> "set", n |-> 0]

\* gc_init() has run and apply() is entered, before any call into the channel
\* or with the progress bar shown
RunInit ==
  /\ \E nt \in 0 .. (ChanThreads - 1), nc \in 0 .. RunMaxChunks : ApplyEntered(nt, nc)
  /\ PartIdle
  /\ AuxIdle
  /\ handler = "standard"
  /\ ChanIdle \/ \E p \in SetValues : BarShown(p)

RunNext ==
  \/ Spawn
  \/ RunStartLoop
  \/ RunWake
  \/ Join
  \/ RunFinish
  \/ RaiseSignal
  \/ \E k \in Workers : RunWorker(k)

SpecRun == RunInit /\ [][RunNext]_vars

\* ------------------------------------------------ the distributed executor
\* chunk_processor_multiprocess is declared in multiprocess.h; this file makes
\* and configures the object (gc_set_process_execution) and enters a worker
\* process (gc_exec_worker).  What the class does is taken from its
\* specification: apply() spawns one process per worker index, collects the
\* exit status of each and fails if any is not zero, without a retry; a worker
\* process owns the chunk ids pid, pid + nworker, pid + 2 nworker, ... below the
\* chunk count.

\* bound of the worker count
ProcMaxWorkers == 3

\* bound of the number of calls the threads make on two progress reporters
TwoMaxOps == 2

\* chunk_processor_multiprocess::exec: the chunk ids worker process pid owns
exec_partition(pid, nworker, cnt) ==
  {pid + j * nworker : j \in 0 .. cnt} \cap (0 .. (cnt - 1))

\* gc_exec_worker(json_path, pid, nworker, work_dir)
gc_exec_worker(pid, nworker, cnt) == exec_partition(pid, nworker, cnt)

\* how a worker process ends: exit status zero, exit status not zero, crash
ExitStatuses == {"zero", "nonzero", "crashed"}

\* gc_set_process_execution(n_worker, cmd) has made the executor with
\* set_nworker(n_worker[0]), and its apply() is entered
DistInit ==
  /\ dN \in 1 .. ProcMaxWorkers
  /\ dproc = [k \in 0 .. (dN - 1) |-> "unspawned"]
  /\ dspawns = [k \in 0 .. (dN - 1) |-> 0]
  /\ dres = "running"
  /\ req = 0
  /\ mholder = {}
  /\ prev = "none"
  /\ m_progress2 = {} /\ p_val2 = 0 /\ logfile = <<>>
  /\ ApplyEntered(0, 0)
  /\ PartIdle
  /\ ChanQuiet

\* what a step of the distributed executor leaves alone
DistFrame ==
  UNCHANGED <<execVars, chanVars, partVars, bufVars, req, mholder, dN, prev, repVars,
              logfile>>

\* the command is invoked for worker index k, after those of the lower indexes
DSpawn(k) ==
  /\ dres = "running"
  /\ dproc[k] = "unspawned"
  /\ \A j \in 0 .. (k - 1) : dproc[j] # "unspawned"
  /\ dproc' = [dproc EXCEPT ![k] = "running"]
  /\ dspawns' = [dspawns EXCEPT ![k] = @ + 1]
  /\ UNCHANGED dres
  /\ DistFrame

\* worker process k ends
DExit(k) ==
  /\ dproc[k] = "running"
  /\ \E st \in ExitStatuses : dproc' = [dproc EXCEPT ![k] = st]
  /\ UNCHANGED <<dspawns, dres>>
  /\ DistFrame

\* a run that fails only if every worker failed
RunFails_all(st) == \A k \in DOMAIN st : st[k] # "zero"

\* a non-zero exit of any worker is a run failure
RunFails(st) == \E k \in DOMAIN st : st[k] # "zero"

\* all exit statuses are collected: apply() returns or fails
DFinish ==
  /\ dres = "running"
  /\ \A k \in DOMAIN dproc : dproc[k] \in ExitStatuses
  /\ dres' = IF RunFails(dproc) THEN "failed" ELSE "returned"
  /\ UNCHANGED <<dproc, dspawns>>
  /\ DistFrame

DistNext ==
  \/ \E k \in DOMAIN dproc : DSpawn(k)
  \/ \E k \in DOMAIN dproc : DExit(k)
  \/ DFinish

SpecProc == DistInit /\ [][DistNext]_vars

\* ------------------------------------------- the configured thread count

\* the values of n[0] passed to gc_set_threads; gc_init passes 1
ThreadArgs == (1 .. MaxThreads) \cup {65536 + n : n \in 0 .. MaxThreads}

\* the conversion of an int to the uint16_t parameter of the constructor
ToUint16(n) == n % 65536

\* uint32_t max_threads() { return _nthreads; }
max_threads == nthreads

\* gc_set_threads(n) (gc_init: n = 1) has made the executor, and apply() is
\* entered on it
CfgInit ==
  /\ \E n \in ThreadArgs, nc \in 0 .. MaxChunks :
       req = n /\ ApplyEntered(ToUint16(n), nc)
  /\ mholder = {}
  /\ prev = "none"
  /\ m_progress2 = {} /\ p_val2 = 0 /\ logfile = <<>>
  /\ DistIdle
  /\ PartIdle
  /\ ChanQuiet

SpecCfg == CfgInit /\ [][Next]_vars

\* ------------------------------------------ the mutex passed to the callback

\* bound of the chunk count in SpecSink
SinkMaxChunks == 2

\* a mutex of its own for every worker thread
SharedSink_own(it) == [obj |-> "mutex", copy |-> it + 1]

\* std::mutex mutex; ... [..., &mutex, ...] ... f(i, dat, mutex): the object the
\* callback of worker `it` is passed is the local of apply()
SharedSink(it) == [obj |-> "mutex", copy |-> 0]

\* what a step of a callback on the mutex leaves alone
SinkFrame ==
  UNCHANGED <<execVars, chanVars, partVars, bufVars, req, dN, dproc, dspawns, dres, prev,
              repVars, logfile>>

\* the callback worker k runs locks the mutex it was passed
CbLock(k) ==
  /\ wpc[k] = "call"
  /\ \A h \in mholder : h.m # SharedSink(k) /\ h.k # k
  /\ mholder' = mholder \cup {[m |-> SharedSink(k), k |-> k]}
  /\ SinkFrame

\* the callback unlocks it
CbUnlock(k) ==
  /\ wpc[k] = "call"
  /\ \E h \in mholder : h.k = k /\ mholder' = mholder \ {h}
  /\ SinkFrame

\* A step of apply() as in Spec, or a step of a callback on the mutex.  A
\* callback unlocks the mutex before it returns or throws.
SinkNext ==
  \/ Next /\ \A h \in mholder : wpc'[h.k] = "call"
  \/ \E k \in Workers : CbLock(k)
  \/ \E k \in Workers : CbUnlock(k)

SinkInit ==
  /\ \E nt \in 0 .. MaxThreads, nc \in 0 .. SinkMaxChunks : ApplyEntered(nt, nc)
  /\ PartIdle
  /\ AuxIdle
  /\ ChanQuiet

SpecSink == SinkInit /\ [][SinkNext]_vars

\* =====================================================================
\* Properties
\* =====================================================================

Returned == spc = "returned"
Failed == spc = "failed"
Skipped(c) == outcome[c] = "skipped"

\* the recorded lines that reference chunk c
LinesFor(c) ==
  BagCardinality([l \in {x \in DOMAIN recorded : c \in x.msg.chunks} |-> recorded[l]])

\* C1: for N >= 1 workers and C >= 0 chunks the loop of worker k iterates over
\* exactly the ids of [0, C) congruent to k modulo N; the N partitions are
\* pairwise disjoint and their union is 0 .. C-1.
C1_Partition ==
  pdone =>
    /\ \A k \in 0 .. (pN - 1) : ppart[k] = {c \in 0 .. (pC - 1) : c % pN = k}
    /\ \A k, j \in 0 .. (pN - 1) : k # j => ppart[k] \cap ppart[j] = {}
    /\ UNION {ppart[k] : k \in 0 .. (pN - 1)} = 0 .. (pC - 1)

C1_Witness ==
  /\ pdone /\ pN = 3 /\ pC = 10
  /\ ppart[0] = {0, 3, 6, 9} /\ ppart[1] = {1, 4, 7} /\ ppart[2] = {2, 5, 8}

C3_OneWorkerPerChunk ==
  \A c \in Chunks :
    /\ reads[c] <= 1
    /\ calls[c] <= 1
    /\ visitors[c] \subseteq {k \in Workers : c % nthreads = k}
    /\ callers[c] \subseteq {k \in Workers : c % nthreads = k}

C3_Witness ==
  /\ Failed /\ nthreads = 2 /\ TotalFails = 1
  /\ callers[0] = {0} /\ callers[1] = {1} /\ calls[1] = 1

\* C4: for N >= 1, apply() ends by throwing exactly when the interrupted flag
\* was set and some chunk was skipped; when it returns normally every chunk was
\* started, and when it throws some chunk never reached the callback.
C4_ThrowsIffSkipped ==
  (Ended /\ nthreads >= 1) =>
    /\ Failed <=> (interrupted /\ \E c \in Chunks : Skipped(c))
    /\ Returned => \A c \in Chunks : reads[c] = 1
    /\ Failed => \E c \in Chunks : calls[c] = 0

C4_Witness ==
  /\ Failed /\ nthreads = 2 /\ nchunks = 3
  /\ Skipped(1) /\ ~Skipped(0) /\ ~Skipped(2)

\* C5 as stated: if the interrupt signal is raised while some assigned chunk has
\* not started, apply() throws and the callback is never invoked for a skipped
\* chunk.
C5_AsClaimed ==
  /\ (Ended /\ nthreads >= 1 /\ sigEarly) => Failed
  /\ \A c \in Chunks : Skipped(c) => calls[c] = 0

\* C5 amended: if the main thread sees the interrupt and sets the interrupted
\* flag while some assigned chunk has not yet had its pre-chunk check, apply()
\* throws, and the callback is never invoked for the chunks not started by then.
C5_FlagBeforeStart ==
  /\ (Ended /\ unstartedAtFlag # {}) => Failed
  /\ \A c \in unstartedAtFlag : calls[c] = 0 /\ reads[c] = 0

C5_Witness ==
  /\ Failed /\ nthreads = 2 /\ nchunks = 3
  /\ unstartedAtFlag = {2} /\ calls[0] = 1 /\ calls[1] = 1

\* C6: if the interrupt signal is raised only after every chunk has started,
\* apply() returns normally, also when the main thread saw the signal and set
\* the interrupted flag.
C6_LateSignalReturns ==
  (Ended /\ signal # "none" /\ ~sigEarly) => Returned

C6_Witness ==
  /\ Returned /\ nthreads = 2 /\ nchunks = 3
  /\ signal = "seen" /\ interrupted /\ ~sigEarly

\* C7: if the interrupted flag is set before any worker has made a pre-chunk
\* check and there is at least one chunk, the callback is never invoked and
\* apply() throws.
C7_FlagBeforeAnyCheck ==
  (interrupted /\ nchunks >= 1 /\ unstartedAtFlag = Chunks) =>
    /\ \A c \in Chunks : calls[c] = 0
    /\ Ended => Failed

C7_Witness ==
  /\ Failed /\ nthreads = 2 /\ nchunks = 3
  /\ unstartedAtFlag = Chunks
  /\ \A c \in Chunks : calls[c] = 0 /\ Skipped(c)

\* C8: an exception thrown by read_chunk or by the callback for chunk i is
\* caught in the worker: the worker goes on with chunk i+N and its later chunks,
\* and apply() does not throw because of it.  When apply() has ended and the
\* interrupted flag was never set, apply() has returned normally whatever
\* failed, every chunk was read once, and the callback was invoked once for
\* every chunk whose read_chunk did not throw; apply() throws only when a chunk
\* was skipped.
C8_FailureIsLocal ==
  /\ (Ended /\ nthreads >= 1 /\ ~interrupted) =>
       /\ Returned
       /\ \A c \in Chunks :
            /\ reads[c] = 1
            /\ calls[c] = (IF outcome[c] = "read_failed" THEN 0 ELSE 1)
  /\ Failed => \E c \in Chunks : Skipped(c)
  /\ \A k \in Workers : wpc[k] = "ended" => ~InLoop(wi[k], nchunks)

C8_Witness ==
  /\ Returned /\ nthreads = 2 /\ nchunks = 3 /\ ~interrupted
  /\ fails[0] = 1 /\ calls[2] = 1 /\ outcome[2] = "ok"

\* C9 as stated: every exception caught for chunk i leaves exactly one recorded
\* error line that references chunk i.
C9_AsClaimed ==
  \A c \in Chunks : LinesFor(c) = fails[c]

\* C10: when apply() has returned or thrown, every worker thread has ended: no
\* read_chunk or callback invocation is in progress and no worker can take a
\* further step.
C10_EndsAfterWorkers ==
  Ended =>
    /\ \A k \in Workers : wpc[k] = "ended"
    /\ \A c \in Chunks : outcome[c] \notin {"reading", "calling"}
    /\ ~(ENABLED (\E k \in Workers : Worker(k)))

C10_Witness ==
  /\ Failed /\ nthreads = 2 /\ nchunks = 3
  /\ \A k \in Workers : wpc[k] = "ended"
  /\ \E c \in Chunks : outcome[c] = "ok"

\* C11 as stated: under fair scheduling, with read_chunk and the callback always
\* returning or throwing, apply() eventually returns or throws, for every number
\* of threads and chunks, every chunk failure and every timing of the interrupt.
C11_AsClaimed == <>Ended

\* C12: once set, the interrupted flag stays set; it is set only by the main
\* thread, in the step of the polling loop that sees the host interrupt; and with
\* the flag set the main thread is past the polling loop, so it checks the host
\* interrupt no more and the signal it saw stays as it is.
C12_OneShot ==
  [][ /\ interrupted => interrupted'
      /\ (~interrupted /\ interrupted') =>
            /\ spc \in {"spawn", "sleep"}
            /\ signal = "pending" /\ signal' = "seen"
            /\ wpc' = wpc /\ wi' = wi /\ wreg' = wreg
      /\ interrupted' => spc' \in {"join", "returned", "failed"}
      /\ interrupted => signal' = signal ]_vars

C12_Witness ==
  /\ Returned /\ interrupted /\ signal = "seen"
  /\ nthreads = 2 /\ nchunks = 3 /\ \A c \in Chunks : outcome[c] = "ok"

\* the chunk has been through read_chunk and the callback, or failed on the way
Completed(c) == outcome[c] \in {"ok", "read_failed", "call_failed"}

\* C13: a chunk in read_chunk goes on to the callback or fails, and a chunk in
\* the callback returns or fails, whether or not the interrupted flag is set
\* meanwhile: it is never skipped.  A chunk that gets its pre-chunk check with the
\* flag set is skipped, and read_chunk and the callback are never invoked for a
\* skipped chunk; with the flag clear the chunk is started.
C13_NeverMidChunk ==
  [][ \A c \in Chunks :
        /\ outcome[c] = "reading" =>
              outcome'[c] \in {"reading", "calling", "read_failed"}
        /\ outcome[c] = "calling" =>
              outcome'[c] \in {"calling", "ok", "call_failed"}
        /\ (outcome[c] = "none" /\ outcome'[c] # "none") =>
              outcome'[c] = (IF interrupted THEN "skipped" ELSE "reading")
        /\ outcome'[c] = "skipped" => (reads'[c] = 0 /\ calls'[c] = 0)
        /\ (Completed(c) \/ Skipped(c)) => outcome'[c] = outcome[c] ]_vars

C13_Witness ==
  /\ nthreads = 2 /\ nchunks = 3 /\ interrupted
  /\ outcome[1] = "calling" /\ Skipped(2) /\ reads[2] = 0 /\ calls[2] = 0

\* worker k starts chunk c in this step
Starts(k, c) == wpc[k] = "top" /\ wpc'[k] = "read" /\ wi[k] = c

\* C14: when worker k starts chunk c, every chunk it entered before has a
\* smaller id and is through read_chunk and the callback (returned or failed);
\* and a worker enters no chunk twice.
C14_IncreasingOrder ==
  [][ \A k \in Workers : \A c \in Chunks :
        /\ Starts(k, c) =>
              \A j \in Chunks : k \in visitors[j] => (j < c /\ Completed(j))
        /\ (k \in visitors[c] /\ wi'[k] # wi[k]) => wi'[k] > c ]_vars

C14_Witness ==
  /\ nthreads = 2 /\ nchunks = 3
  /\ outcome[0] = "call_failed" /\ outcome[2] = "calling" /\ callers[2] = {0}

\* ---------------------------------------------------------------------
\* the diagnostic channel
\* ---------------------------------------------------------------------

RECURSIVE LineIds(_)
\* the line ids of the pieces of diagnostic lines in seq, in order, each run of
\* equal ids taken once
LineIds(seq) ==
  IF seq = <<>> THEN <<>>
  ELSE LET rest == LineIds(Tail(seq)) IN
       IF Head(seq).kind # "line" THEN rest
       ELSE IF rest # <<>> /\ Head(rest) = Head(seq).id THEN rest
       ELSE <<Head(seq).id>> \o rest

IsPrefix(a, b) == Len(a) <= Len(b) /\ a = SubSeq(b, 1, Len(a))

\* the number of insertions of one line under the handler set
LineLen == IF handler = "debug" THEN 4 ELSE 3

\* every diagnostic line in seq is whole: its pieces lie side by side, start
\* with the tag and end with the line end, and no other text lies among them
Whole(seq) ==
  \A i \in 1 .. Len(seq) :
    seq[i].kind = "line" =>
      LET run == {j \in 1 .. Len(seq) : seq[j].kind = "line" /\ seq[j].id = seq[i].id}
          lo == CHOOSE j \in run : \A k \in run : j <= k
      IN /\ run = lo .. (lo + LineLen - 1)
         /\ seq[lo].text \in {"[ERROR] ", "[WARNING] ", "[WARNING]  ", "## ",
                              "[INFO] ", "[DEBUG] "}
         /\ seq[lo + 1].text = MsgText
         /\ seq[lo + LineLen - 1].text = "\n"
         /\ \A j \in run : seq[j].thr = seq[i].thr

\* str, if it holds text, is written to the console in this step, after all
\* the text that waited in r_stderr_buf
Emitted(str) == str = <<>> \/ console' = console \o stderr_s \o str

\* C15: a step of a thread other than the main thread never writes to the
\* console and never calls Rcpp::warning: whatever it prints or warns is only
\* added to the buffer.
C15_OnlyMainEmits ==
  [][ \A t \in ChanThreadIds :
        (t # r_main_thread_id /\ ChanThread(t)) =>
          /\ console' = console
          /\ warned' = warned
          /\ IsPrefix(stderr_s, stderr_s')
          /\ IsPrefix(warnings, warnings') ]_vars

C15_Witness ==
  /\ console # <<>>
  /\ \A i \in 1 .. Len(console) : console[i].thr = r_main_thread_id
  /\ \E i \in 1 .. Len(stderr_s) : stderr_s[i].thr # r_main_thread_id
  /\ last.thr # r_main_thread_id /\ last.op = "record"

\* C16: the diagnostic lines on the console are in the order in which their
\* handler calls locked _m_errhandl, and so are the lines still on their way:
\* console, r_stderr_buf and _err_stream in this order hold the lines in the
\* order of arrival.
C16_ArrivalOrder ==
  /\ IsPrefix(LineIds(console), arrival)
  /\ IsPrefix(LineIds(console \o stderr_s \o err_stream), arrival)

C16_Witness ==
  /\ LineIds(console) = <<1, 2, 3>>
  /\ \E i, j \in 1 .. Len(console) :
       /\ i < j /\ console[i].kind = "line" /\ console[j].kind = "line"
       /\ console[i].thr # r_main_thread_id /\ console[j].thr = r_main_thread_id

\* C17: on the console and in r_stderr_buf every diagnostic line is whole, and
\* every frame is one piece of text.
C17_LinesWhole ==
  /\ Whole(console)
  /\ Whole(console \o stderr_s)

C17_Witness ==
  /\ Len(LineIds(console)) = 2
  /\ \E i, j \in 1 .. Len(console) :
       /\ console[i].kind = "line" /\ console[j].kind = "line"
       /\ console[i].thr # console[j].thr
  /\ \E i \in 1 .. Len(console) : console[i].kind = "frame"

\* the handler call of the main thread reaches its end with _defer false
MainRecordNotDeferred == ErrFlush(r_main_thread_id) /\ ~defer

\* all the text that waited is on the console and both buffers are empty
AllOut ==
  /\ err_stream' = <<>>
  /\ stderr_s' = <<>>
  /\ console' = console \o stderr_s \o err_stream

\* C18 as stated: a handler call by the main thread with _defer false leaves
\* both buffers empty, all the text that waited having been written.
C18_AsClaimed == [][ MainRecordNotDeferred => AllOut ]_vars

\* C18 amended: so it is when the handler set writes a line for the level of
\* the message.
C18_RecordFlushes ==
  [][ (MainRecordNotDeferred /\ cop[r_main_thread_id].wrote) => AllOut ]_vars

C18_Witness ==
  /\ last = [thr |-> r_main_thread_id, op |-> "record", n |-> LineLen]
  /\ err_stream = <<>> /\ stderr_s = <<>> /\ ~defer
  /\ \E i, j \in 1 .. Len(console) :
       /\ i < j /\ console[i].kind = "line" /\ console[j].kind = "line"
       /\ console[i].thr # r_main_thread_id /\ console[j].thr = r_main_thread_id

\* thread t executes do_output(), on its own or in finalize()
DoOutputStep(t) == CallFlush(t) \/ FOutput(t)

\* C19 as stated: after do_output() _err_stream is empty, _defer is false and
\* the text _err_stream held is on the console.
C19_AsClaimed ==
  [][ \A t \in ChanThreadIds :
        DoOutputStep(t) => (err_stream' = <<>> /\ ~defer' /\ Emitted(err_stream)) ]_vars

\* C19 amended: after do_output() _err_stream is empty and _defer is false;
\* called by the main thread the text is on the console, called by another
\* thread it has been added to r_stderr_buf and the console is as it was.
C19_FlushNowDrains ==
  [][ \A t \in ChanThreadIds :
        DoOutputStep(t) =>
          /\ err_stream' = <<>>
          /\ ~defer'
          /\ IF t = r_main_thread_id
               THEN Emitted(err_stream) /\ (err_stream # <<>> => stderr_s' = <<>>)
               ELSE stderr_s' = stderr_s \o err_stream /\ console' = console ]_vars

C19_Witness ==
  /\ last = [thr |-> r_main_thread_id, op |-> "do_output", n |-> LineLen]
  /\ err_stream = <<>> /\ stderr_s = <<>> /\ ~defer
  /\ LineIds(console) = <<1>>
  /\ \A i \in 1 .. Len(console) : console[i].thr # r_main_thread_id

\* finalize() has left on the console a frame of 100 % that no other frame
\* follows, and after it the line break
FinalFrameOut(t, con) ==
  \E i, j \in 1 .. Len(con) :
    /\ i < j
    /\ con[i] = Frame(t, 100) /\ con[i].eq = 50 /\ con[i].pct = 100
    /\ con[j] = LineBreak(t)
    /\ \A k \in (i + 1) .. Len(con) : con[k].kind # "frame"

\* C20 as stated: when finalize() returns, in whatever thread, the stored
\* value is 1, the frame of 100 % and the line break after it are on the
\* console, and the text _err_stream held is on the console.
C20_AsClaimed ==
  [][ \A t \in ChanThreadIds :
        FOutput(t) =>
          /\ p_val' = 100
          /\ FinalFrameOut(t, console')
          /\ err_stream' = <<>> /\ ~defer' /\ Emitted(err_stream) ]_vars

\* C20 amended: when finalize() returns the stored value is 1, _err_stream is
\* empty and _defer is false; called by the main thread, the frame of 100 %,
\* the line break after it and the text _err_stream held are on the console;
\* called by another thread they are on the console or wait in r_stderr_buf.
C20_Finalize ==
  [][ \A t \in ChanThreadIds :
        FOutput(t) =>
          /\ p_val' = 100
          /\ err_stream' = <<>> /\ ~defer'
          /\ IF t = r_main_thread_id
               THEN FinalFrameOut(t, console') /\ Emitted(err_stream)
               ELSE /\ FinalFrameOut(t, console' \o stderr_s')
                    /\ stderr_s' = stderr_s \o err_stream ]_vars

C20_Witness ==
  /\ last = [thr |-> r_main_thread_id, op |-> "finalize", n |-> LineLen]
  /\ p_val = 100 /\ err_stream = <<>> /\ ~defer
  /\ FinalFrameOut(r_main_thread_id, console)
  /\ console[Len(console)].kind = "line"

\* in seq a line break lies between every frame and every diagnostic line
\* after it
NoLineAfterFrame(seq) ==
  \A i \in 1 .. Len(seq) :
    seq[i].kind = "line" =>
      \A j \in 1 .. (i - 1) :
        seq[j].kind = "frame" => \E k \in (j + 1) .. (i - 1) : seq[k].kind = "nl"

\* C21: with the threads recording diagnostics and updating one progress
\* reporter in every interleaving, no diagnostic line is written to the console
\* after a frame before the line break of the finalize() that follows the
\* frame; the same holds of the text that waits in r_stderr_buf behind the
\* console.
C21_NoLineInsideBar ==
  /\ NoLineAfterFrame(console)
  /\ NoLineAfterFrame(console \o stderr_s)

C21_Witness ==
  /\ last.op = "finalize" /\ last.n = LineLen
  /\ \E i, j, k \in 1 .. Len(console) :
       /\ i < j /\ j < k
       /\ console[i].kind = "frame" /\ console[i].pct = 50
       /\ console[j].kind = "nl"
       /\ console[k].kind = "line"

\* the diagnostic lines whose handler call has returned, in order of arrival
Recorded ==
  IF m_errhandl = {} THEN arrival ELSE SubSeq(arrival, 1, Len(arrival) - 1)

\* C22 as stated: when apply() ends by throwing, every diagnostic line
\* recorded during the run is on the console.
C22_AsClaimed == Failed => LineIds(console) = arrival

\* C22 amended: when apply() ends by throwing, r_stderr_buf is empty and every
\* diagnostic line recorded during the run is on the console or still in
\* _err_stream; _err_stream holds lines only if the channel is in deferred
\* mode.
C22_FlushedUnlessDeferred ==
  Failed =>
    /\ stderr_s = <<>>
    /\ LineIds(console \o err_stream) = arrival
    /\ ~defer => err_stream = <<>>

C22_Witness ==
  /\ Failed /\ defer
  /\ arrival = <<1>> /\ LineIds(err_stream) = <<1>> /\ LineIds(console) = <<>>
  /\ \E i \in 1 .. Len(console) : console[i].kind = "frame"

\* a tick of the polling loop
Tick == RunStartLoop \/ RunWake

\* C23 as stated: after every tick of the polling loop every diagnostic line
\* recorded so far is on the console.
C23_AsClaimed == [][ Tick => LineIds(console') = Recorded ]_vars

\* C23 amended: after every tick r_stderr_buf is empty, and every diagnostic
\* line recorded so far is on the console or, in deferred mode, in _err_stream.
C23_TickFlushes ==
  [][ Tick =>
        /\ stderr_s' = <<>>
        /\ m_errhandl = {} =>
             /\ LineIds(console' \o err_stream') = arrival
             /\ ~defer => err_stream' = <<>> ]_vars

C23_Witness ==
  /\ spc = "sleep" /\ stderr_s = <<>> /\ ~defer
  /\ arrival = <<1>> /\ LineIds(console) = <<1>>
  /\ \E k \in Workers : wpc[k] \in {"top", "read", "call"}

\* C24: a call of set or increment stores and renders under the reporter's lock
\* what it computed when it took the lock: the step that stores the value of
\* increment(dp) raises the stored value by exactly dp, that of set(p) stores
\* p, and the text the step prints is the frame of the value it stores.
C24_AtomicUpdates ==
  [][ \A t \in ChanThreadIds :
        PRender(t) =>
          /\ LET out == console' \o stderr_s' IN out[Len(out)] = Frame(t, p_val')
          /\ cop[t].op = "increment" => (p_val' - p_val) \in IncValues
          /\ cop[t].op = "set" => p_val' \in SetValues ]_vars

C24_Witness ==
  /\ p_val = 150 /\ last.op = "increment"
  /\ LET out == console \o stderr_s IN
     /\ \A i \in 1 .. Len(out) : out[i].kind = "frame"
     /\ \E i, j \in 1 .. Len(out) :
          /\ i < j /\ out[i].pct = 100 /\ out[j].pct = 150
          /\ out[i].thr # out[j].thr

\* C25 as stated: the stored progress value lies in [0, 1].
C25_AsClaimed == p_val \in 0 .. 100

\* C26: a call of set, increment or finalize of the silent reporter leaves
\* _defer, _err_stream, r_stderr_buf, the console and the value stored by the
\* rendering reporter as they were.
C26_SilentReporter ==
  [][ \A t \in ChanThreadIds :
        CallNone(t) => UNCHANGED <<defer, err_stream, stderr_s, console, p_val>> ]_vars

C26_Witness ==
  /\ last.op = "none_finalize"
  /\ defer /\ LineIds(err_stream) = <<1>> /\ p_val = 50
  /\ \E i \in 1 .. Len(console \o stderr_s) : (console \o stderr_s)[i].kind = "frame"

C28_AsClaimed ==
  (Ended /\ req >= 1) =>
    /\ max_threads = req
    /\ Cardinality({k \in Workers : wpc[k] # "unborn"}) = req

\* C29: for every worker count N >= 1, chunk count C and index k, the chunk ids
\* the loop of thread k iterates over are the chunk ids worker process k of N
\* owns.
C29_SameAssignment ==
  pdone => \A k \in 0 .. (pN - 1) : ppart[k] = gc_exec_worker(k, pN, pC)

C29_Witness ==
  /\ pdone /\ pN = 4 /\ pC = 11
  /\ ppart[3] = {3, 7} /\ gc_exec_worker(3, 4, 11) = {3, 7}
  /\ ppart[0] = {0, 4, 8} /\ gc_exec_worker(0, 4, 11) = {0, 4, 8}

\* C30: no worker process is spawned twice, and when the distributed apply()
\* has ended it has failed exactly if some worker process crashed or exited
\* with a status other than zero, however many others exited with zero.
C30_AnyFailureFails ==
  /\ \A k \in DOMAIN dspawns : dspawns[k] <= 1
  /\ dres \in {"returned", "failed"} =>
       (dres = "failed" <=> \E k \in DOMAIN dproc : dproc[k] \in {"nonzero", "crashed"})

C30_Witness ==
  /\ dres = "failed" /\ dN = 3
  /\ dproc[0] = "zero" /\ dproc[1] = "crashed" /\ dproc[2] = "zero"
  /\ \A k \in DOMAIN dspawns : dspawns[k] = 1


\* C31: the main thread sees the host interrupt only in a pass of the polling
\* loop whose counter is a positive multiple of interrupt_every (20) and in
\* which some worker is not finished; the counter then stays at that value, so
\* a signal is never seen at a tick below 20, and a run whose workers all
\* finish earlier ends with the signal unseen.
C31_PollCadence ==
  [][ /\ (signal # "seen" /\ signal' = "seen") =>
           /\ spc = "sleep"
           /\ ~AllFinished
           /\ interrupted'
      /\ signal' = "seen" =>
           (tick' >= interrupt_every /\ tick' % interrupt_every = 0) ]_vars

C31_Witness ==
  /\ Returned /\ signal = "pending" /\ ~interrupted
  /\ tick < interrupt_every
  /\ nthreads = 2 /\ nchunks = 3 /\ \A c \in Chunks : calls[c] = 1


\* C32: while the channel is in deferred mode, every step other than the
\* do_output() of a finalize() leaves it in deferred mode and removes nothing
\* from _err_stream, and no line that _err_stream holds is on the console or in
\* r_stderr_buf: neither a handler call nor a print of the main thread makes
\* a deferred line visible.
C32_DeferredUntilFinalize ==
  [][ (defer /\ ~(\E t \in ChanThreadIds : FOutput(t))) =>
        /\ defer'
        /\ IsPrefix(err_stream, err_stream')
        /\ \A i \in 1 .. Len(err_stream') :
             \A j \in 1 .. Len(console' \o stderr_s') :
               (console' \o stderr_s')[j].kind = "line" =>
                 (console' \o stderr_s')[j].id # err_stream'[i].id ]_vars

C32_Witness ==
  /\ defer /\ LineIds(err_stream) = <<1>> /\ m_errhandl = {}
  /\ last.op = "print" /\ last.thr = r_main_thread_id
  /\ LineIds(console) = <<>> /\ stderr_s = <<>>
  /\ \E i \in 1 .. Len(console) : console[i].kind = "frame"


\* ------------------------------------------------ two progress reporters
\* progress::get() returns a new progress_simple_R object: each object has its
\* own _m and _p, while error_handling_r::_defer, _err_stream and the buffer
\* of r_stderr_buf are static.  In SpecTwo the threads record lines and call
\* set, increment and finalize of two such objects.

\* set(p), increment(dp) or finalize() of the second object is entered:
\* _m.lock() on its own mutex
ProgressCall2(t, op, p) ==
  /\ MayCall(t)
  /\ CanLock(m_progress2)
  /\ m_progress2' = {t}
  /\ cop' = [cop EXCEPT ![t] = [op |-> op, todo |-> <<>>, wrote |-> FALSE, p |-> p]]
  /\ cpc' = [cpc EXCEPT ![t] = "p2_defer"]
  /\ nops' = nops + 1
  /\ UNCHANGED <<handler, err_stream, defer, stderr_s, console, warnings, warned,
                 m_errhandl, m_progress, p_val, p_val2, arrival, last>>

\* the calls of the second object: set(p), increment(dp) with its own _p, finalize()
Call2(t) ==
  \/ \E p \in SetValues : ProgressCall2(t, "set2", p)
  \/ \E dp \in IncValues : ProgressCall2(t, "increment2", p_val2 + dp)
  \/ ProgressCall2(t, "finalize2", FinalValue)

\* _set of the second object: error_handling_r::defer_output() on the shared flag
PDefer2(t) ==
  /\ Goes(t, "p2_defer", "p2_render")
  /\ defer_output
  /\ UNCHANGED <<handler, err_stream, stderr_s, console, warnings, warned, m_errhandl,
                 m_progress, p_val, repVars, cop, arrival, nops, last>>

\* _set of the second object: _p = p; the frame is printed; set and increment unlock
PRender2(t) ==
  /\ cpc[t] = "p2_render"
  /\ p_val2' = cop[t].p
  /\ stderr_print(t, <<Frame(t, cop[t].p)>>)
  /\ IF cop[t].op = "finalize2"
       THEN cpc' = [cpc EXCEPT ![t] = "f2_newline"] /\ UNCHANGED <<cop, m_progress2, last>>
       ELSE Returns(t, 0) /\ m_progress2' = {}
  /\ UNCHANGED <<handler, err_stream, defer, warnings, warned, m_errhandl,
                 m_progress, p_val, arrival, nops>>

\* finalize of the second object: the line break is printed
FNewline2(t) ==
  /\ Goes(t, "f2_newline", "f2_output")
  /\ stderr_print(t, <<LineBreak(t)>>)
  /\ UNCHANGED <<handler, err_stream, defer, warnings, warned, m_errhandl,
                 m_progress, p_val, repVars, cop, arrival, nops, last>>

\* finalize of the second object: error_handling_r::do_output(); _m.unlock()
FOutput2(t) ==
  /\ cpc[t] = "f2_output"
  /\ do_output(t)
  /\ m_progress2' = {}
  /\ Returns(t, PassedOn)
  /\ UNCHANGED <<handler, warnings, warned, m_errhandl, m_progress, p_val, p_val2,
                 arrival, nops>>

\* a step of a thread on the first object or on the handler
TwoFirst(t) ==
  /\ \/ \E type \in Levels : ErrCall(t, type)
     \/ ErrWrite(t)
     \/ ErrFlush(t)
     \/ CallSet(t)
     \/ CallIncrement(t)
     \/ CallFinalize(t)
     \/ PDefer(t)
     \/ PRender(t)
     \/ FNewline(t)
     \/ FOutput(t)
  /\ UNCHANGED <<execVars, chanVars, sideVars>>

\* a step of a thread on the second object
TwoSecond(t) ==
  /\ \/ Call2(t)
     \/ PDefer2(t)
     \/ PRender2(t)
     \/ FNewline2(t)
     \/ FOutput2(t)
  /\ UNCHANGED <<execVars, chanVars, partVars, auxVars, logfile>>

\* the threads make at most TwoMaxOps calls
TwoNext ==
  /\ \E t \in ChanThreadIds : TwoFirst(t) \/ TwoSecond(t)
  /\ nops' <= TwoMaxOps

SpecTwo == ChanInit /\ [][TwoNext]_vars

\* C33: the deferred mode is one flag shared by every progress reporter: a
\* step turns it on only if it is the defer_output() of _set of one of the
\* reporters, and that step leaves it on; a step turns it off only if it is
\* the do_output() of finalize of one of the reporters, and that step leaves
\* it off; recording a line never changes it.
C33_SharedDeferFlag ==
  [][ /\ (~defer /\ defer') => \E t \in ChanThreadIds : PDefer(t) \/ PDefer2(t)
      /\ (defer /\ ~defer') => \E t \in ChanThreadIds : FOutput(t) \/ FOutput2(t)
      /\ \A t \in ChanThreadIds :
           /\ (PDefer(t) \/ PDefer2(t)) => defer'
           /\ (FOutput(t) \/ FOutput2(t)) => ~defer'
           /\ ((\E type \in Levels : ErrCall(t, type)) \/ ErrWrite(t) \/ ErrFlush(t)) =>
                defer' = defer ]_vars

\* finalize() of the second reporter has returned and ended the deferral while
\* the first one has shown the frame of one half and has not been finalized
C33_Witness ==
  /\ ~defer /\ last.op = "finalize2" /\ p_val = 50 /\ p_val2 = 100
  /\ \A t \in ChanThreadIds : cpc[t] = "idle"
  /\ \E i \in 1 .. Len(console) : console[i].kind = "frame" /\ console[i].pct = 50


\* C34: every line a console handler has accepted is emitted exactly once.
\* No insertion of an accepted line is ever missing from, or twice in, the
\* console, r_stderr_buf::_s and _err_stream taken together outside of the
\* handler call that writes it, and none is twice on the console; and when a
\* print of the main thread is the call that returned last, with the deferred
\* mode off and no handler call under way, every insertion of every accepted
\* line is on the console, once.
C34_ExactlyOnce ==
  LET all == console \o stderr_s \o err_stream
      Pieces(seq, id) == {j \in 1 .. Len(seq) : seq[j].kind = "line" /\ seq[j].id = id}
  IN  \A i \in 1 .. Len(arrival) :
        /\ Cardinality(Pieces(all, arrival[i])) <= LineLen
        /\ m_errhandl = {} => Cardinality(Pieces(all, arrival[i])) = LineLen
        /\ (m_errhandl = {} /\ ~defer /\ last.op = "print" /\ last.thr = r_main_thread_id) =>
             Cardinality(Pieces(console, arrival[i])) = LineLen

\* a worker thread's line was deferred, passed on by a worker's finalize() and
\* written out by the print of the main thread
C34_Witness ==
  /\ m_errhandl = {} /\ ~defer /\ last.op = "print" /\ last.thr = r_main_thread_id
  /\ arrival = <<1>>
  /\ \E i, j \in 1 .. Len(console) :
       /\ i < j /\ console[i].kind = "nl" /\ console[i].thr # r_main_thread_id
       /\ console[j].kind = "line" /\ console[j].thr # r_main_thread_id


\* C35: the completion flags and the left-work-undone flags of the workers are
\* independent under concurrent writes: when every worker has ended, every
\* finished flag is true, and interrupted_bythread of a worker is true exactly
\* when that worker skipped one of its chunks.
C35_AsClaimed ==
  (\A k \in Workers : wpc[k] = "ended") =>
    \A k \in Workers :
      /\ finished[k]
      /\ interrupted_bythread[k] <=> \E c \in Chunks : k \in visitors[c] /\ Skipped(c)


\* ------------------------------------------------------ the file handlers
\* gc_set_err_handler(debug, log_to_file) with a file name installs
\* standard_file or debug_file.  They lock _m_errhandl, open _logfile for
\* appending and write the line to it; when the file cannot be opened they
\* unlock and call the console handler of the same kind.  Whether the file
\* opens is up to the file system: either outcome can follow every open.  In
\* SpecFile a file handler is set and the threads record lines, print, and call
\* set, increment and finalize of one progress reporter.

\* bound of the number of calls the threads make with a file handler set
FileMaxOps == 2

FileHandlers == {"standard_file", "debug_file"}

\* a fallback that goes to standard whatever handler is set
ConsoleOf_standard(h) == "standard"

\* the console handler standard_file and debug_file fall back to
ConsoleOf(h) == IF h = "debug_file" THEN "debug" ELSE "standard"

\* a fallback that keeps _m_errhandl locked
FallbackUnlock_held == UNCHANGED m_errhandl

\* _m_errhandl.unlock() before the console handler is called
FallbackUnlock == m_errhandl' = {}

\* the text the handler h writes to the file for a message of level `type`;
\* standard_file writes nothing for a debug message
FileText(h, type) ==
  IF h = "debug_file"
    THEN IF type \in {"ERROR", "FATAL"}
           THEN "Error  message: " \o MsgText \o " [in " \o WhereText \o "]" \o "\n"
         ELSE IF type = "WARNING"
           THEN "Warning  message: " \o MsgText \o " [in " \o WhereText \o "]" \o "\n"
         ELSE IF type = "INFO"
           THEN "Info message: " \o MsgText \o " [in " \o WhereText \o "]" \o "\n"
         ELSE IF type = "DEBUG"
           THEN "Debug message: " \o MsgText \o " [in " \o WhereText \o "]" \o "\n"
         ELSE ""
    ELSE IF type \in {"ERROR", "FATAL"} THEN "Error: " \o MsgText \o "\n"
         ELSE IF type = "WARNING" THEN "Warning: " \o MsgText \o "\n"
         ELSE IF type = "INFO" THEN "## " \o MsgText \o "\n"
         ELSE ""

\* standard_file or debug_file is called with a message of level `type`:
\* _m_errhandl.lock().  The level is kept with the locals of the call.
FileCall(t, type) ==
  /\ MayCall(t)
  /\ handler \in FileHandlers
  /\ CanLock(m_errhandl)
  /\ m_errhandl' = {t}
  /\ cop' = [cop EXCEPT ![t] = [op |-> "record", todo |-> <<Piece(t, nops + 1, type)>>,
                                wrote |-> FALSE, p |-> 0]]
  /\ cpc' = [cpc EXCEPT ![t] = "file_open"]
  /\ nops' = nops + 1
  /\ UNCHANGED <<handler, err_stream, defer, stderr_s, console, warnings, warned,
                 m_progress, p_val, arrival, last, logfile>>

\* os.open(_logfile, out | app); if (!os.is_open()) { _m_errhandl.unlock(); ... }
FileOpen(t) ==
  /\ cpc[t] = "file_open"
  /\ \E is_open \in BOOLEAN :
       IF is_open
         THEN cpc' = [cpc EXCEPT ![t] = "file_write"] /\ UNCHANGED m_errhandl
         ELSE cpc' = [cpc EXCEPT ![t] = "file_fallback"] /\ FallbackUnlock
  /\ UNCHANGED <<handler, err_stream, defer, stderr_s, console, warnings, warned,
                 m_progress, p_val, cop, arrival, nops, last, logfile>>

\* os << ... << std::endl; _m_errhandl.unlock()
FileWrite(t) ==
  /\ cpc[t] = "file_write"
  /\ LET piece == Head(cop[t].todo)
         text == FileText(handler, piece.text) IN
     logfile' = IF text = "" THEN logfile
                ELSE Append(logfile, [thr |-> t, id |-> piece.id, text |-> text,
                                      locked |-> t \in m_errhandl, defer |-> defer])
  /\ m_errhandl' = {}
  /\ Returns(t, 0)
  /\ UNCHANGED <<handler, err_stream, defer, stderr_s, console, warnings, warned,
                 m_progress, p_val, arrival, nops>>

\* standard(type, msg, where, error_code) or debug(...) called by the file
\* handler: _m_errhandl.lock(); the insertions are those of the console handler
FileFallback(t) ==
  /\ cpc[t] = "file_fallback"
  /\ CanLock(m_errhandl)
  /\ m_errhandl' = {t}
  /\ LET id == Len(arrival) + 1
         ins == Insertions(ConsoleOf(handler), t, id, Head(cop[t].todo).text) IN
     /\ cop' = [cop EXCEPT ![t] = [op |-> "record", todo |-> ins,
                                   wrote |-> ins # <<>>, p |-> 0]]
     /\ arrival' = IF ins # <<>> THEN Append(arrival, id) ELSE arrival
     /\ cpc' = [cpc EXCEPT ![t] = IF ins # <<>> THEN "err_write" ELSE "err_flush"]
  /\ UNCHANGED <<handler, err_stream, defer, stderr_s, console, warnings, warned,
                 m_progress, p_val, nops, last, logfile>>

\* a step of a thread in a file handler
FileRecord(t) ==
  /\ \/ \E type \in Levels : FileCall(t, type)
     \/ FileOpen(t)
     \/ FileWrite(t)
     \/ FileFallback(t)
  /\ UNCHANGED <<execVars, chanVars, partVars, auxVars, repVars>>

\* a step of a thread in the console handler fallen back to, in a print or in
\* a call of the progress reporter
FileOther(t) ==
  /\ \/ ErrWrite(t)
     \/ ErrFlush(t)
     \/ CallPrint(t)
     \/ CallSet(t)
     \/ CallIncrement(t)
     \/ CallFinalize(t)
     \/ PDefer(t)
     \/ PRender(t)
     \/ FNewline(t)
     \/ FOutput(t)
  /\ UNCHANGED <<execVars, chanVars, sideVars>>

FileThread(t) == FileRecord(t) \/ FileOther(t)

\* gc_set_err_handler(debug, log_to_file) with a file name has set the handler
FileInit ==
  /\ handler \in FileHandlers
  /\ ChanIdle
  /\ ApplyEntered(0, 0)
  /\ PartIdle
  /\ AuxIdle

\* the threads make at most FileMaxOps calls
FileNext ==
  /\ \E t \in ChanThreadIds : FileThread(t)
  /\ nops' <= FileMaxOps

SpecFile == FileInit /\ [][FileNext]_vars


\* C36: the locks of the diagnostics path are taken in one order, the
\* reporter's _m, then _m_errhandl, then the buffer's mutex inside print, and
\* never taken again while held.  A thread that holds _m_errhandl is inside a
\* handler, where it takes no lock but that of print; a thread about to lock
\* _m_errhandl (in _set, in finalize, or in a file handler's fallback) does not
\* hold it; and no call is stuck: every thread inside a call can take its next
\* step, or waits for _m_errhandl while the thread holding it can.
C36_LockOrder ==
  /\ \A t \in m_errhandl :
       /\ cpc[t] \in {"err_write", "err_flush", "file_open", "file_write"}
       /\ t \notin m_progress
  /\ \A t \in ChanThreadIds :
       /\ cpc[t] \in {"p_defer", "f_output", "file_fallback"} => t \notin m_errhandl
       /\ cpc[t] # "idle" =>
            \/ ENABLED FileThread(t)
            \/ \E h \in m_errhandl : h # t /\ ENABLED FileThread(h)

\* a thread inside set() holds the reporter's lock and waits for _m_errhandl,
\* which a thread holds that writes its line in the fallback of a file handler
C36_Witness ==
  \E t, h \in ChanThreadIds :
    /\ cpc[t] = "p_defer" /\ m_progress = {t} /\ ~ENABLED FileThread(t)
    /\ m_errhandl = {h} /\ cpc[h] = "err_write" /\ handler \in FileHandlers


\* C39: with a file handler set, a line is appended to the file by the thread
\* that holds _m_errhandl, and that step leaves _err_stream, the buffer of
\* print and the console as they were, in deferred mode or not; a line is
\* accepted by a console handler only in the fallback after an open that
\* failed, and it is then the line of the console handler of the same kind:
\* under debug_file every such line carries the source label, under
\* standard_file none does and a debug message writes nothing.
C39_FileLines ==
  [][ /\ logfile' # logfile =>
           /\ \E t \in m_errhandl :
                /\ cpc[t] = "file_write"
                /\ \E type \in Levels :
                     /\ FileText(handler, type) # ""
                     /\ logfile' = Append(logfile, [thr |-> t, id |-> Head(cop[t].todo).id,
                                                    text |-> FileText(handler, type),
                                                    locked |-> TRUE, defer |-> defer])
           /\ UNCHANGED <<err_stream, stderr_s, console, arrival, defer>>
      /\ arrival' # arrival =>
           \E t \in ChanThreadIds :
             /\ cpc[t] = "file_fallback" /\ cpc'[t] = "err_write"
             /\ logfile' = logfile
             /\ \A i \in 1 .. Len(logfile) : logfile[i].id # Head(cop[t].todo).id
      /\ \A i \in 1 .. Len(arrival') :
           LET all == console' \o stderr_s' \o err_stream'
               labelled == \E j \in 1 .. Len(all) :
                             /\ all[j].kind = "line" /\ all[j].id = arrival'[i]
                             /\ all[j].text = " [in " \o WhereText \o "]"
               debug_tag == \E j \in 1 .. Len(all) :
                              /\ all[j].kind = "line" /\ all[j].id = arrival'[i]
                              /\ all[j].text = "[DEBUG] "
           IN  /\ (handler = "standard_file") => ~labelled /\ ~debug_tag
               /\ (handler = "debug_file" /\ m_errhandl' = {}) => labelled ]_vars

\* in deferred mode, with a frame on the console, a line was appended to the
\* file and nothing else was written anywhere
C39_Witness ==
  /\ Len(logfile) = 1 /\ logfile[1].defer /\ logfile[1].locked
  /\ defer /\ err_stream = <<>> /\ stderr_s = <<>> /\ arrival = <<>>
  /\ \A i \in 1 .. Len(console) : console[i].kind = "frame"
  /\ console # <<>> /\ \A t \in ChanThreadIds : cpc[t] = "idle"


\* C38: with _nthreads = 0 apply() spawns no worker thread, read_chunk and the
\* callback are invoked for no chunk, the polling loop is left in its first
\* pass without a sleep and without a look at the host signal, and apply()
\* goes on to return normally: it never throws and never stops before it has
\* returned, whatever the chunk count.
C38_ZeroThreads ==
  nthreads = 0 =>
    /\ Workers = {} /\ sit = 0
    /\ \A c \in Chunks : reads[c] = 0 /\ calls[c] = 0 /\ outcome[c] = "none"
    /\ ~interrupted /\ signal # "seen" /\ spc \notin {"sleep", "failed"}
    /\ ~Returned => ENABLED MainStep

\* apply() has returned with three chunks unprocessed, and with a host
\* interrupt raised that it never looked at
C38_Witness ==
  /\ nthreads = 0 /\ nchunks = 3 /\ Returned /\ signal = "pending"
  /\ \A c \in Chunks : calls[c] = 0


\* C40: every frame the reporter renders for a stored value in [0, 1] has the
\* same width: the number of characters between "[" and "]", the "=" run, the
\* ">" and the padding, is the same for any two frames printed, the frame of
\* 100 % that finalize() renders included.
C40_AsClaimed ==
  LET out == console \o stderr_s
      InRange(f) == f.kind = "frame" /\ f.pct \in 0 .. 100
      Width(f) == f.eq + 1 + f.sp
  IN  \A i, j \in 1 .. Len(out) :
        (InRange(out[i]) /\ InRange(out[j])) => Width(out[i]) = Width(out[j])


\* ------------------------------------------------------- a second apply()
\* interrupted, finished and interrupted_bythread are local variables of
\* apply() (lines 95-98): a later call of apply() on the same executor makes
\* them anew.  Rcpp::checkUserInterrupt() takes the pending interrupt of the
\* host with it when it throws, so an interrupt apply() has seen is no longer
\* pending afterwards; one it has not seen still is.  In SpecAgain apply() is
\* called a second time on the same executor and cube once the first call has
\* ended; read_chunk and the callback return for every chunk.

\* bounds of the thread and chunk counts of the two calls
AgainMaxThreads == 2
AgainMaxChunks == 2

\* a flag that keeps the value the previous call left
FreshFlag_kept == interrupted

\* bool interrupted = false
FreshFlag == FALSE

\* apply() is called again after it has returned or thrown
Reenter ==
  /\ Ended
  /\ prev = "none"
  /\ prev' = spc
  /\ signal' = IF signal = "seen" THEN "none" ELSE signal
  /\ interrupted' = FreshFlag
  /\ interrupted_bythread' = [k \in Workers |-> FALSE]
  /\ finished' = [k \in Workers |-> FALSE]
  /\ spc' = "spawn"
  /\ sit' = 0
  /\ tick' = 0
  /\ wpc' = [k \in Workers |-> "unborn"]
  /\ wi' = [k \in Workers |-> 0]
  /\ wreg' = [k \in Workers |-> <<>>]
  /\ outcome' = [c \in Chunks |-> "none"]
  /\ reads' = [c \in Chunks |-> 0]
  /\ calls' = [c \in Chunks |-> 0]
  /\ visitors' = [c \in Chunks |-> {}]
  /\ callers' = [c \in Chunks |-> {}]
  /\ fails' = [c \in Chunks |-> 0]
  /\ sigEarly' = FALSE
  /\ unstartedAtFlag' = {}
  /\ UNCHANGED <<nthreads, nchunks, chanVars, partVars, repVars, logfile, bufVars,
                 req, mholder, dN, dproc, dspawns, dres>>

AgainInit ==
  /\ \E nt \in 0 .. AgainMaxThreads, nc \in 0 .. AgainMaxChunks : ApplyEntered(nt, nc)
  /\ PartIdle
  /\ AuxIdle
  /\ ChanQuiet

\* the two calls, with read_chunk and the callback returning for every chunk
AgainNext ==
  \/ Next /\ fails' = fails
  \/ Reenter

SpecAgain == AgainInit /\ [][AgainNext]_vars

\* C37: cancellation does not leak into the next call of apply().  In a call
\* made after an earlier one, as long as no host interrupt has been seen in it
\* the interrupted flag and every interrupted_bythread flag are clear and no
\* chunk is skipped; and when the call made after a call that threw has ended
\* with no host interrupt raised in it, it has returned normally and every
\* chunk was read once and passed to the callback once.
C37_NoLeak ==
  /\ (prev # "none" /\ signal # "seen") =>
       /\ ~interrupted
       /\ \A k \in Workers : ~interrupted_bythread[k]
       /\ \A c \in Chunks : ~Skipped(c)
  /\ (prev = "failed" /\ Ended /\ signal = "none") =>
       /\ Returned
       /\ \A c \in Chunks : reads[c] = 1 /\ calls[c] = 1

\* the call after an interrupted one has processed both chunks and returned
C37_Witness ==
  /\ prev = "failed" /\ Returned /\ signal = "none"
  /\ nthreads = 2 /\ nchunks = 2 /\ \A c \in Chunks : calls[c] = 1

====
